---- MODULE Spec2Model ----
(***************************************************************************)
(* State-machine model of the live candle pipeline of AlpacaBackend:       *)
(* CandleRepository (persistence.py), TimeframeAggregator (aggregator.py), *)
(* BackfillGuard (backfill.py), request_backfill (backfill_coordinator.py),*)
(* SubscriptionManager (subscriptions.py), WebsocketClient (client.py) and *)
(* the fetch_historical_data task (tasks.py).                              *)
(*                                                                         *)
(* Timestamps are minutes since the epoch (integers); wall-clock time is   *)
(* in milliseconds.  Python None is the integer None (-1), never a price   *)
(* or a volume.  A dict whose key may be absent is a record whose DOMAIN   *)
(* may lack the field.                                                      *)
(***************************************************************************)
EXTENDS Integers, Sequences, FiniteSets, TLC

VARIABLES
    store,              \* core_candle table: sequence of rows, row id = index
    queued,             \* cache: assets whose backfill:queued flag is set
    running,            \* cache: assets whose backfill:running flag is set
    completed,          \* cache: assets whose backfill:completed flag is set
    task_queue,         \* celery broker: asset id -> queued fetch_historical_data messages
    job,                \* celery workers: worker -> [pc, asset]
    rb,                 \* request_backfill callers: caller -> [pc, asset, ret, enq]
    setters,            \* history: asset -> calls that set the queued flag since it was last absent
    sv,                 \* a save_candles call in progress (read done, write pending)
    hist,               \* history: <<tf, aid, ts>> -> the committed save_candles merges of the key
    foreign,            \* history: <<tf, aid, ts>> keys the backfill job has written
    now,                \* wall clock, ms
    cache_down,         \* the cache reads of the websocket service raise
    auth_start_time,    \* WebsocketClient.auth_start_time, ms or None
    ws_running,         \* WebsocketClient.running
    retry_at,           \* channel -> the instant its runner's 10 s sleep ends
    auth_sent_at,       \* channel -> the instant its auth frame went out, None when closed
    fl,                 \* a floor_to_bucket call: its arguments and its result
    ro,                 \* two runs of rollup_from_minutes over the same entries
    message_buffer,     \* the Queue (q), every message put so far, every message
                        \* handed to _process_batch so far, the batch drained last
    tf_acc,             \* TimeframeAggregator._tf_acc: tf -> (<<aid, bucket>> -> dict)
    last_open_flush,    \* TimeframeAggregator._last_open_flush: tf -> ms
    bl,                 \* the batch thread: position in _process_batch and its locals
    lastw,              \* history: the last higher-timeframe save of the live path
    evicted,            \* history: <<tf, aid, bucket>> entries flush_closed has popped
    skipped,            \* history: <<tf, aid, bucket>> keys persist_open skipped for the gate
    wla_active,         \* ids of the WatchListAsset rows that are active (in active watchlists)
    subscribed_symbols, \* SubscriptionManager.subscribed_symbols
    asset_cache,        \* SubscriptionManager.asset_cache: symbol -> asset id
    asset_class_cache,  \* SubscriptionManager.asset_class_cache: asset id -> asset class
    last_request,       \* BackfillGuard._last_request: asset id -> ms
    authenticated,      \* WebsocketClient.authenticated
    chan,               \* transport of a channel: "closed", "open" (awaiting auth) or "authed"
    rec                 \* reconcile callers: thread -> [pc, current]; the last call to finish keeps its effects

coordVars == <<queued, running, completed, task_queue, job, rb, setters>>

storeVars == <<store, sv, hist, foreign>>

aggVars == <<tf_acc, last_open_flush, bl, lastw, evicted, skipped>>

subVars == <<wla_active, subscribed_symbols, asset_cache, asset_class_cache,
             last_request, authenticated, chan, rec>>

connVars == <<auth_start_time, ws_running, retry_at, auth_sent_at>>

liveVars == <<now, cache_down, connVars, fl, ro, message_buffer, aggVars, subVars>>

vars == <<coordVars, storeVars, liveVars>>

None == -1

\* ---------------------------------------------------------------- bounds
MaxWrites == 3
MaxTasks == 1

\* ------------------------------------------------------------- constants
TF_1T == "1T"
TF_5T == "5T"
TF_15T == "15T"

\* const.TF_CFG restricted to the timeframes modelled, durations in minutes
TF_CFG == [t \in {TF_1T, TF_5T, TF_15T} |->
             IF t = TF_1T THEN 1 ELSE IF t = TF_5T THEN 5 ELSE 15]

\* iteration order of the higher timeframes of TF_CFG / TF_LIST
HigherTFs == <<TF_5T, TF_15T>>

HigherTFSet == {HigherTFs[i] : i \in 1..Len(HigherTFs)}

Assets == {1, 2}

Workers == {1, 2}

\* minute 0 of the model: Monday 2023-10-30 19:45 UTC (15:45 New York),
\* in minutes since the epoch; it lies on the grid of every timeframe
T0Epoch == 19660 * 1440 + 1185

\* a historical minute: Thursday 15:30 New York, 4 days and 15 minutes before minute 0
HistTs == 0 - (4 * 1440 + 15)

\* ---------------------------------------------------------------- helpers
Max(a, b) == IF a >= b THEN a ELSE b

Min(a, b) == IF a <= b THEN a ELSE b

\* dict.get(f): None when the key is absent
Get(d, f) == IF f \in DOMAIN d THEN d[f] ELSE None

\* python `x or 0`
OrZero(v) == IF v = None THEN 0 ELSE v

KeyLess(k1, k2) == k1[1] < k2[1] \/ (k1[1] = k2[1] /\ k1[2] < k2[2])

RECURSIVE KeySeq(_)
\* the keys of a dict as a sequence (a fixed iteration order)
KeySeq(S) ==
    IF S = {} THEN <<>>
    ELSE LET k == CHOOSE x \in S : \A y \in S \ {x} : KeyLess(x, y)
         IN <<k>> \o KeySeq(S \ {k})

RECURSIVE SumSeq(_)
SumSeq(s) == IF s = <<>> THEN 0 ELSE Head(s) + SumSeq(Tail(s))

Range(s) == {s[i] : i \in 1..Len(s)}

\* ------------------------------------------------------------------ store
RowIds(st, tf, aid, ts) ==
    {i \in 1..Len(st) : st[i].timeframe = tf /\ st[i].asset_id = aid
                        /\ st[i].timestamp = ts}

\* Candle(...) built for the create path of save_candles
NewCandle(tf, aid, ts, data) ==
    [asset_id |-> aid, timeframe |-> tf, timestamp |-> ts,
     open |-> Get(data, "open"), high |-> Get(data, "high"),
     low |-> Get(data, "low"), close |-> Get(data, "close"),
     volume |-> OrZero(Get(data, "volume")),
     minute_candle_ids |-> IF "minute_candle_ids" \in DOMAIN data
                           THEN data.minute_candle_ids ELSE {}]

\* NOT NULL columns of Candle
ValidRow(r) ==
    r.open # None /\ r.high # None /\ r.low # None /\ r.close # None

RECURSIVE BulkCreateUnchecked(_, _)
BulkCreateUnchecked(st, rows) ==
    IF rows = <<>> THEN st
    ELSE BulkCreateUnchecked(Append(st, Head(rows)), Tail(rows))

RECURSIVE BulkCreate(_, _)
\* bulk_create(ignore_conflicts=True) under unique_together(asset, timeframe, timestamp)
BulkCreate(st, rows) ==
    IF rows = <<>> THEN st
    ELSE LET r == Head(rows)
         IN IF RowIds(st, r.timeframe, r.asset_id, r.timestamp) # {}
            THEN BulkCreate(st, Tail(rows))
            ELSE BulkCreate(Append(st, r), Tail(rows))

\* bulk_update by primary key; upd is a set of [id, row]
BulkUpdate(st, upd) ==
    [i \in 1..Len(st) |->
        IF \E u \in upd : u.id = i
        THEN (CHOOSE u \in upd : u.id = i).row
        ELSE st[i]]

\* the `existing` dict of save_candles: key -> [id, row] as read
Existing(st, tf, keys) ==
    [k \in {k \in keys : RowIds(st, tf, k[1], k[2]) # {}} |->
        LET i == CHOOSE i \in RowIds(st, tf, k[1], k[2]) :
                    \A j \in RowIds(st, tf, k[1], k[2]) : j <= i
        IN [id |-> i, row |-> st[i]]]

MergeVolumeReplace(c, data, snapshot) ==
    OrZero(Get(data, "volume"))

MergeVolume(c, data, snapshot) ==
    IF snapshot THEN OrZero(Get(data, "volume"))
    ELSE OrZero(c.volume) + OrZero(Get(data, "volume"))

MergeHighLast(c, data) ==
    IF Get(data, "high") # None THEN Get(data, "high") ELSE c.high

MergeHigh(c, data) ==
    IF c.high # None /\ Get(data, "high") # None
    THEN Max(c.high, Get(data, "high"))
    ELSE IF c.high # None THEN c.high ELSE Get(data, "high")

MergeLow(c, data) ==
    IF c.low # None /\ Get(data, "low") # None
    THEN Min(c.low, Get(data, "low"))
    ELSE IF c.low # None THEN c.low ELSE Get(data, "low")

\* the merge branch of save_candles
MergeRow(c, data, snapshot) ==
    [c EXCEPT
        !.open = IF c.open = None /\ Get(data, "open") # None
                 THEN data.open ELSE c.open,
        !.high = MergeHigh(c, data),
        !.low = MergeLow(c, data),
        !.close = IF "close" \in DOMAIN data THEN data.close ELSE c.close,
        !.volume = MergeVolume(c, data, snapshot),
        !.minute_candle_ids =
            IF "minute_candle_ids" \in DOMAIN data
            THEN c.minute_candle_ids \cup data.minute_candle_ids
            ELSE c.minute_candle_ids]

ToCreate(tf, updates, existing) ==
    LET ks == KeySeq(DOMAIN updates \ DOMAIN existing)
    IN [i \in 1..Len(ks) |-> NewCandle(tf, ks[i][1], ks[i][2], updates[ks[i]])]

ToUpdate(updates, existing, snapshot) ==
    {[id |-> existing[k].id,
      row |-> MergeRow(existing[k].row, updates[k], snapshot)] :
        k \in DOMAIN updates \cap DOMAIN existing}

\* whether the transaction of save_candles commits (no IntegrityError)
WriteOk(tf, updates, existing, snapshot) ==
    /\ \A i \in 1..Len(ToCreate(tf, updates, existing)) :
          ValidRow(ToCreate(tf, updates, existing)[i])
    /\ \A u \in ToUpdate(updates, existing, snapshot) : ValidRow(u.row)

\* the transaction.atomic() block of save_candles; a failure rolls back and is swallowed
SaveWriteTxn(st, tf, updates, existing, snapshot) ==
    IF WriteOk(tf, updates, existing, snapshot)
    THEN BulkUpdate(BulkCreate(st, ToCreate(tf, updates, existing)),
                    ToUpdate(updates, existing, snapshot))
    ELSE st

\* save_candles run without interleaving (read, merge, write)
SaveCandles(st, tf, updates, write_mode) ==
    IF DOMAIN updates = {} THEN st
    ELSE SaveWriteTxn(st, tf, updates, Existing(st, tf, DOMAIN updates),
                      write_mode = "snapshot")

\* ------------------------------------------------- backfill coordinator
\* rows of WatchListAsset: two watchlists hold asset 1, one holds asset 2
WatchListAssetRows ==
    {[id |-> 1, asset_id |-> 1], [id |-> 2, asset_id |-> 1],
     [id |-> 3, asset_id |-> 2]}

\* SingleInstanceTask.apply_async: the task id built from args[0]
TaskId(arg0) ==
    IF \E w \in WatchListAssetRows : w.id = arg0
    THEN <<"asset", (CHOOSE w \in WatchListAssetRows : w.id = arg0).asset_id>>
    ELSE <<"watchlist-asset", arg0>>

\* current_app.control.inspect().active() holds a task with this id
TaskActive(jb, a) ==
    \E w \in Workers : jb[w].pc # "idle" /\ TaskId(jb[w].asset) = TaskId(a)

\* fetch_historical_data.delay(asset_id) through SingleInstanceTask.apply_async
ApplyAsync(tq, jb, a) ==
    IF TaskActive(jb, a) THEN tq ELSE [tq EXCEPT ![a] = @ + 1]

Callers == {1, 2}

IdleCall == [pc |-> "idle", asset |-> 0, ret |-> "none", enq |-> 0]

\* request_backfill, first half: cache.add(queued key); False when the flag is set
RbAdd(c, a) ==
    /\ rb[c].pc = "idle"
    /\ task_queue[a] < MaxTasks
    /\ IF a \in queued
       THEN /\ rb' = [rb EXCEPT ![c] = [pc |-> "done", asset |-> a,
                                         ret |-> "False", enq |-> 0]]
            /\ UNCHANGED <<queued, setters>>
       ELSE /\ queued' = queued \cup {a}
            /\ setters' = [setters EXCEPT ![a] = @ + 1]
            /\ rb' = [rb EXCEPT ![c] = [pc |-> "delay", asset |-> a,
                                         ret |-> "none", enq |-> 0]]
    /\ UNCHANGED <<running, completed, task_queue, job, storeVars, liveVars>>

\* request_backfill, second half: fetch_historical_data.delay(asset_id); return True
RbDelay(c) ==
    /\ rb[c].pc = "delay"
    /\ task_queue' = ApplyAsync(task_queue, job, rb[c].asset)
    /\ rb' = [rb EXCEPT ![c].pc = "done", ![c].ret = "True",
                        ![c].enq = task_queue'[rb[c].asset] - task_queue[rb[c].asset]]
    /\ UNCHANGED <<queued, running, completed, job, setters, storeVars, liveVars>>

\* the caller goes on; its next call starts afresh
RbReturn(c) ==
    /\ rb[c].pc = "done"
    /\ rb' = [rb EXCEPT ![c] = IdleCall]
    /\ UNCHANGED <<queued, running, completed, task_queue, job, setters, storeVars, liveVars>>

\* the 10-minute TTL of the queued flag runs out
ExpireQueued(a) ==
    /\ a \in queued
    /\ queued' = queued \ {a}
    /\ setters' = [setters EXCEPT ![a] = 0]
    /\ UNCHANGED <<running, completed, task_queue, job, rb, storeVars, liveVars>>

\* the LOCK_TTL of the running flag runs out (the job never refreshes it)
ExpireRunning(a) ==
    /\ a \in running
    /\ running' = running \ {a}
    /\ UNCHANGED <<queued, completed, task_queue, job, rb, setters, storeVars, liveVars>>

\* ------------------------------------------------ fetch_historical_data
AssetTable ==
    {[id |-> 1, symbol |-> "AAPL", asset_class |-> "us_equity"],
     [id |-> 2, symbol |-> "BTC/USD", asset_class |-> "crypto"]}

\* the minutes the historical-bars API has a bar for, latest first (sort="desc")
ApiMinutes == <<0, HistTs>>

\* the bar the API returns for a minute
ApiBar(m) == [open |-> 1, high |-> 2, low |-> 1, close |-> 2, volume |-> 1]

RowsOf(st, tf, aid) ==
    {i \in 1..Len(st) : st[i].timeframe = tf /\ st[i].asset_id = aid}

\* timestamp of .order_by("-timestamp").first(), None without rows
LatestTs(st, tf, aid) ==
    IF RowsOf(st, tf, aid) = {} THEN None
    ELSE LET i == CHOOSE i \in RowsOf(st, tf, aid) :
                    \A j \in RowsOf(st, tf, aid) : st[j].timestamp <= st[i].timestamp
         IN st[i].timestamp

RECURSIVE SelectSeq2(_, _)
\* the minutes of a sequence that are >= start, in order
SelectSeq2(ms, start) ==
    IF ms = <<>> THEN <<>>
    ELSE IF Head(ms) >= start THEN <<Head(ms)>> \o SelectSeq2(Tail(ms), start)
         ELSE SelectSeq2(Tail(ms), start)

\* step 1: the 1T candles built from the API bars after the latest stored 1T row
Step1Candles(st, aid) ==
    LET last == LatestTs(st, TF_1T, aid)
        ms == IF last = None THEN ApiMinutes ELSE SelectSeq2(ApiMinutes, last + 1)
    IN [i \in 1..Len(ms) |-> NewCandle(TF_1T, aid, ms[i], ApiBar(ms[i]))]

\* anchor of date_bin: 09:30 on the epoch day, in minutes from minute 0
Anchor == 570 - T0Epoch

\* date_bin(delta, ts, anchor)
DateBin(ts, delta) == Anchor + ((ts - Anchor) \div delta) * delta

RECURSIVE DescSeq(_)
DescSeq(S) ==
    IF S = {} THEN <<>>
    ELSE LET m == CHOOSE x \in S : \A y \in S : y <= x
         IN <<m>> \o DescSeq(S \ {m})

RECURSIVE MaxOf(_)
MaxOf(S) ==
    LET x == CHOOSE x \in S : TRUE
    IN IF S = {x} THEN x ELSE Max(x, MaxOf(S \ {x}))

RECURSIVE MinOf(_)
MinOf(S) ==
    LET x == CHOOSE x \in S : TRUE
    IN IF S = {x} THEN x ELSE Min(x, MinOf(S \ {x}))

RECURSIVE SumVolume(_, _)
SumVolume(st, I) ==
    IF I = {} THEN 0
    ELSE LET i == CHOOSE i \in I : TRUE
         IN st[i].volume + SumVolume(st, I \ {i})

\* the 1T rows step 2 resamples for a timeframe
ResampleSource(st, tf, aid) ==
    LET last == IF Cardinality(RowsOf(st, tf, aid)) > 2
                THEN LatestTs(st, tf, aid) ELSE None
    IN {i \in RowsOf(st, TF_1T, aid) :
            last = None \/ st[i].timestamp >= last + TF_CFG[tf]}

\* one row of the `agg` query: the OHLCV of a bucket from its 1T rows
Resampled(st, tf, aid, bucket) ==
    LET I == {i \in ResampleSource(st, tf, aid) :
                 DateBin(st[i].timestamp, TF_CFG[tf]) = bucket}
        first == CHOOSE i \in I : \A j \in I : st[i].timestamp <= st[j].timestamp
        last == CHOOSE i \in I : \A j \in I : st[j].timestamp <= st[i].timestamp
    IN [asset_id |-> aid, timeframe |-> tf, timestamp |-> bucket,
        open |-> st[first].open,
        high |-> MaxOf({st[i].high : i \in I}),
        low |-> MinOf({st[i].low : i \in I}),
        close |-> st[last].close,
        volume |-> SumVolume(st, I),
        minute_candle_ids |-> I]

ResampleBuckets(st, tf, aid) ==
    {DateBin(st[i].timestamp, TF_CFG[tf]) : i \in ResampleSource(st, tf, aid)}

\* step 2 for one timeframe: overwrite the existing rows, create the others
Step2Store(st, tf, aid) ==
    LET bs == ResampleBuckets(st, tf, aid)
        old == {b \in bs : RowIds(st, tf, aid, b) # {}}
        new == DescSeq(bs \ old)
        upd == {[id |-> CHOOSE i \in RowIds(st, tf, aid, b) : TRUE,
                 row |-> Resampled(st, tf, aid, b)] : b \in old}
    IN BulkUpdate(BulkCreate(st, [i \in 1..Len(new) |->
                                     Resampled(st, tf, aid, new[i])]), upd)

IdleJob == [pc |-> "idle", asset |-> 0, tfi |-> 0]

\* a worker picks the task up: asset lookup, then cache.add(running key)
JobStart(w, a) ==
    /\ job[w].pc = "idle"
    /\ task_queue[a] > 0
    /\ task_queue' = [task_queue EXCEPT ![a] = @ - 1]
    /\ IF (\A r \in AssetTable : r.id # a) \/ a \in running
       THEN UNCHANGED <<running, job>>
       ELSE /\ running' = running \cup {a}
            /\ job' = [job EXCEPT ![w] = [pc |-> "step1", asset |-> a, tfi |-> 1]]
    /\ UNCHANGED <<queued, completed, rb, setters, storeVars, liveVars>>

\* step 1: bulk_create(ignore_conflicts=True) of the fetched 1T candles
JobStep1(w) ==
    /\ job[w].pc = "step1"
    /\ store' = BulkCreate(store, Step1Candles(store, job[w].asset))
    /\ foreign' = foreign \cup
          {<<TF_1T, job[w].asset, store'[i].timestamp>> :
              i \in (Len(store) + 1)..Len(store')}
    /\ job' = [job EXCEPT ![w].pc = "step2"]
    /\ UNCHANGED <<queued, running, completed, task_queue, rb, setters, sv, hist, liveVars>>

\* step 2: resample one higher timeframe from the stored 1T rows
JobStep2(w) ==
    /\ job[w].pc = "step2"
    /\ LET tf == HigherTFs[job[w].tfi]
       IN /\ store' = Step2Store(store, tf, job[w].asset)
          /\ foreign' = foreign \cup
                {<<tf, job[w].asset, b>> : b \in ResampleBuckets(store, tf, job[w].asset)}
    /\ job' = IF job[w].tfi < Len(HigherTFs)
              THEN [job EXCEPT ![w].tfi = @ + 1]
              ELSE [job EXCEPT ![w].pc = "mark"]
    /\ UNCHANGED <<queued, running, completed, task_queue, rb, setters, sv, hist, liveVars>>

\* cache.set(completion_key, 1, timeout=86400)
JobMark(w) ==
    /\ job[w].pc = "mark"
    /\ completed' = completed \cup {job[w].asset}
    /\ job' = [job EXCEPT ![w].pc = "finally"]
    /\ UNCHANGED <<queued, running, task_queue, rb, setters, storeVars, liveVars>>

\* finally: cache.delete(running_key); cache.delete(queued_key)
JobFinally(w) ==
    /\ job[w].pc = "finally"
    /\ running' = running \ {job[w].asset}
    /\ queued' = queued \ {job[w].asset}
    /\ setters' = [setters EXCEPT ![job[w].asset] = 0]
    /\ job' = [job EXCEPT ![w] = IdleJob]
    /\ UNCHANGED <<completed, task_queue, rb, storeVars, liveVars>>

CoordInit ==
    /\ queued = {}
    /\ running = {}
    /\ completed = {}
    /\ task_queue = [a \in Assets |-> 0]
    /\ job = [w \in Workers |-> IdleJob]
    /\ rb = [c \in Callers |-> IdleCall]
    /\ setters = [a \in Assets |-> 0]

\* ------------------------------------------------------------ wall clock
OpenFlushMs == 250

CooldownMs == 900000

GapThresholdMs == 300000

MinuteMs == 60 * 1000

\* the clock at construction, the start of minute 0; the 0.0 defaults of
\* _last_open_flush and _last_request lie a cooldown or more before it
StartMs == CooldownMs

MaxTicks == 1

MaxJumps == 1

MaxWaits == 5

\* the wall-clock instant of a minute timestamp
TsMs(m) == StartMs + m * MinuteMs

\* time passes: by one throttle window, by one cooldown, or by a wait of d ms
Tick(d) ==
    /\ IF d = OpenFlushMs
       THEN (now - StartMs) % CooldownMs < MaxTicks * OpenFlushMs
       ELSE IF d = CooldownMs
       THEN (now - StartMs) \div CooldownMs < MaxJumps
       ELSE (now - StartMs) % CooldownMs < MaxWaits * d
    /\ now' = now + d
    /\ UNCHANGED <<coordVars, storeVars, cache_down, connVars, fl, ro, message_buffer, aggVars, subVars>>

\* the 24-hour TTL of the completed flag runs out
ExpireCompleted(a) ==
    /\ a \in completed
    /\ completed' = completed \ {a}
    /\ UNCHANGED <<queued, running, task_queue, job, rb, setters, storeVars, liveVars>>

\* ------------------------------------------------------ websocket/utils.py
\* parse_tick_timestamp: a tick's time (seconds from minute 0) at minute precision
ParseTickTimestamp(secs) == secs \div 60

\* a "t" value that datetime.fromisoformat rejects
BadTs == 0 - 2

\* parse_tick_timestamp raises ValueError
ParseRaises(ts_str) == ts_str = BadTs

\* floor_to_bucket on the epoch grid, in minutes from minute 0
FloorToBucket(ts, delta) == ((T0Epoch + ts) \div delta) * delta - T0Epoch

\* no floor_to_bucket call under observation
NoFloor == [ts |-> 0, minutes |-> 1, bucket |-> None]

EmptyBuffer == [q |-> <<>>, put |-> <<>>, handed |-> <<>>, batch |-> <<>>]

NoRollup == [entries |-> <<>>, run |-> <<>>, ref |-> <<>>, done |-> FALSE]

IsRegularTradingHoursEndInclusive(ts) ==
    LET loc == T0Epoch + ts - 240
        weekday == ((loc \div 1440) + 3) % 7
        t == loc % 1440
    IN weekday <= 4 /\ 570 <= t /\ t <= 960

\* is_regular_trading_hours: Monday-Friday, 09:30 <= t < 16:00 New York (UTC-4)
IsRegularTradingHours(ts) ==
    LET loc == T0Epoch + ts - 240
        weekday == ((loc \div 1440) + 3) % 7
        t == loc % 1440
    IN weekday <= 4 /\ 570 <= t /\ t < 960

\* --------------------------------------------------------- BackfillGuard
EarliestTs(st, tf, aid) ==
    LET i == CHOOSE i \in RowsOf(st, tf, aid) :
                 \A j \in RowsOf(st, tf, aid) : st[i].timestamp <= st[j].timestamp
    IN st[i].timestamp

\* now_dt.replace(hour=0, minute=0, ...) - timedelta(days=1), in minutes from minute 0
HistoricalThreshold(t) ==
    LET m == T0Epoch + ((t - StartMs) \div MinuteMs)
    IN (m - (m % 1440)) - 1440 - T0Epoch

\* the heuristic tier of is_historical_complete
HeuristicComplete(st, t, aid, tf) ==
    /\ RowsOf(st, TF_1T, aid) # {}
    /\ ~(TsMs(EarliestTs(st, TF_1T, aid)) > t - 4 * 1440 * MinuteMs)
    /\ \E i \in RowsOf(st, tf, aid) : st[i].timestamp < HistoricalThreshold(t)

IsHistoricalCompleteFlagFirst(aid, tf, bucket_ts) ==
    IF ~cache_down /\ aid \in completed THEN TRUE
    ELSE IF ~cache_down /\ aid \in running THEN FALSE
    ELSE HeuristicComplete(store, now, aid, tf)

\* is_historical_complete(asset_id, timeframe, bucket_ts) on the current state;
\* a cache.get that raises is passed over and the next tier is tried
IsHistoricalComplete(aid, tf, bucket_ts) ==
    IF ~cache_down /\ aid \in running THEN FALSE
    ELSE IF ~cache_down /\ aid \in completed THEN TRUE
    ELSE HeuristicComplete(store, now, aid, tf)

\* the cache becomes unreachable for the websocket service, and stays so
CacheFail ==
    /\ ~cache_down
    /\ cache_down' = TRUE
    /\ UNCHANGED <<coordVars, storeVars, now, connVars, fl, ro, message_buffer, aggVars, subVars>>

\* ------------------------------------------------- messages of the feeds
Trade(sym, secs, price, size) ==
    [T |-> "t", S |-> sym, t |-> secs, p |-> price, s |-> size]

Bar(sym, secs, o, h, l, c, v) ==
    [T |-> "b", S |-> sym, t |-> secs, o |-> o, h |-> h, l |-> l, c |-> c, v |-> v]

\* the message lists the batch loop is handed: two trades of minute 0; a trade of
\* minute 3 and one of minute 5; an unknown symbol and a trade at 16:00 New York;
\* a crypto bar and a crypto trade of minute 0
Batches ==
    {<<Trade("AAPL", 30, 2, 1), Trade("AAPL", 45, 3, 1)>>,
     <<Trade("AAPL", 200, 1, 2), Trade("AAPL", 300, 3, 1)>>,
     <<Trade("MSFT", 0, 1, 1), Trade("AAPL", 900, 2, 1)>>,
     <<Bar("BTC/USD", 0, 1, 2, 1, 2, 3), Trade("BTC/USD", 10, 2, 1)>>}

\* the batches of the stock channel
StockBatches == {b \in Batches : \A i \in 1..Len(b) : b[i].S = "AAPL" /\ b[i].t < 900}

\* a dict kept with its insertion order: keys in order, data by key
EmptyDict == [keys |-> <<>>, data |-> <<>>]

DictPut(d, k, v) ==
    [keys |-> IF k \in DOMAIN d.data THEN d.keys ELSE Append(d.keys, k),
     data |-> [x \in DOMAIN d.data \cup {k} |-> IF x = k THEN v ELSE d.data[x]]]

\* asset_class_cache.get(aid)
ClassOf(i2c, aid) == IF aid \in DOMAIN i2c THEN i2c[aid] ELSE "none"

\* the trading-hours filter of _process_batch
Dropped(i2c, aid, ts) ==
    ClassOf(i2c, aid) \in {"us_equity", "us_option"} /\ ~IsRegularTradingHours(ts)

RECURSIVE BarCandles(_, _, _, _)
\* bar_candles of _process_batch: the bars of known symbols inside trading hours
BarCandles(ms, s2i, i2c, d) ==
    IF ms = <<>> THEN d
    ELSE LET b == Head(ms)
             aid == Get(s2i, b.S)
             ts == ParseTickTimestamp(b.t)
         IN IF b.T # "b" \/ aid = None \/ b.t = None \/ Dropped(i2c, aid, ts)
            THEN BarCandles(Tail(ms), s2i, i2c, d)
            ELSE BarCandles(Tail(ms), s2i, i2c,
                    DictPut(d, <<aid, ts>>,
                        [open |-> b.o, high |-> b.h, low |-> b.l,
                         close |-> b.c, volume |-> b.v]))

FoldTickLastOnly(d, key, price, vol) ==
    DictPut(d, key, [open |-> price, high |-> price, low |-> price,
                     close |-> price, volume |-> vol])

\* one trade folded into its minute candle
FoldTick(d, key, price, vol) ==
    IF key \in DOMAIN d.data
    THEN DictPut(d, key, [open |-> d.data[key].open,
                          high |-> Max(d.data[key].high, price),
                          low |-> Min(d.data[key].low, price),
                          close |-> price,
                          volume |-> d.data[key].volume + vol])
    ELSE DictPut(d, key, [open |-> price, high |-> price, low |-> price,
                          close |-> price, volume |-> vol])

RECURSIVE M1Map(_, _, _, _)
\* m1_map of _process_batch: the trades folded per (asset, minute)
M1Map(ms, s2i, i2c, d) ==
    IF ms = <<>> THEN d
    ELSE LET t == Head(ms)
             aid == Get(s2i, t.S)
             ts == ParseTickTimestamp(t.t)
         IN IF \/ t.T # "t" \/ aid = None
               \/ t.p = None \/ t.t = None
               \/ Dropped(i2c, aid, ts)
            THEN M1Map(Tail(ms), s2i, i2c, d)
            ELSE M1Map(Tail(ms), s2i, i2c, FoldTick(d, <<aid, ts>>, t.p, t.s))

\* latest_ts of _process_batch: over the folded trades, then over every bar
LatestTs2(ms, m1) ==
    LET S == {k[2] : k \in DOMAIN m1.data} \cup
             {ParseTickTimestamp(ms[i].t) :
                 i \in {j \in 1..Len(ms) : ms[j].T = "b" /\ ms[j].t # None}}
    IN IF S = {} THEN None ELSE MaxOf(S)

RECURSIVE MergeBars(_, _, _)
\* m1_map[k] = v for the bar candles, in their order
MergeBars(m1, bars, i) ==
    IF i > Len(bars.keys) THEN m1
    ELSE MergeBars(DictPut(m1, bars.keys[i], bars.data[bars.keys[i]]), bars, i + 1)

\* the place where _process_batch raises on these messages: in the bar loop
\* (before any save), in the trade loop (after the save of the bars), in the
\* second pass over the bars (after both saves), or nowhere
RaisesAt(ms, s2i) ==
    IF \E i \in 1..Len(ms) :
          /\ ms[i].T = "b" /\ Get(s2i, ms[i].S) # None
          /\ ms[i].t # None /\ ParseRaises(ms[i].t)
    THEN "bars"
    ELSE IF \E i \in 1..Len(ms) :
               /\ ms[i].T = "t" /\ Get(s2i, ms[i].S) # None
               /\ ms[i].p # None /\ ms[i].t # None /\ ParseRaises(ms[i].t)
    THEN "trades"
    ELSE IF \E i \in 1..Len(ms) :
               ms[i].T = "b" /\ ms[i].t # None /\ ParseRaises(ms[i].t)
    THEN "latest"
    ELSE "none"

\* fetch_minute_ids: the 1T row id of a minute key, None without a row
MinuteId(st, k) ==
    IF RowIds(st, TF_1T, k[1], k[2]) = {} THEN None
    ELSE CHOOSE i \in RowIds(st, TF_1T, k[1], k[2]) : TRUE

\* --------------------------------------------------- TimeframeAggregator
Put(f, k, v) == [x \in DOMAIN f \cup {k} |-> IF x = k THEN v ELSE f[x]]

Del(f, K) == [x \in DOMAIN f \ K |-> f[x]]

\* rollup_from_minutes, one minute candle into one accumulator
RollupEntryLastHigh(acc, key, data) ==
    IF key \notin DOMAIN acc
    THEN Put(acc, key, [open |-> data.open, high |-> data.high, low |-> data.low,
                        close |-> data.close, volume |-> data.volume])
    ELSE LET c == acc[key]
             c1 == IF Get(c, "open") = None THEN Put(c, "open", data.open) ELSE c
             c2 == Put(c1, "high", data.high)
             c3 == Put(c2, "low", IF "low" \in DOMAIN c
                                  THEN Min(c.low, data.low) ELSE data.low)
             c4 == Put(c3, "close", data.close)
         IN Put(acc, key, Put(c4, "volume",
                    OrZero(Get(c, "volume")) + OrZero(Get(data, "volume"))))

\* rollup_from_minutes: one minute entry into one accumulator
RollupEntry(acc, key, data) ==
    IF key \notin DOMAIN acc
    THEN Put(acc, key, [open |-> data.open, high |-> data.high, low |-> data.low,
                        close |-> data.close, volume |-> data.volume])
    ELSE LET c == acc[key]
             c1 == IF Get(c, "open") = None THEN Put(c, "open", data.open) ELSE c
             c2 == Put(c1, "high", IF "high" \in DOMAIN c
                                   THEN Max(c.high, data.high) ELSE data.high)
             c3 == Put(c2, "low", IF "low" \in DOMAIN c
                                  THEN Min(c.low, data.low) ELSE data.low)
             c4 == Put(c3, "close", data.close)
         IN Put(acc, key, Put(c4, "volume",
                    OrZero(Get(c, "volume")) + OrZero(Get(data, "volume"))))

RECURSIVE RollupAcc(_, _, _, _)
\* rollup_from_minutes for one timeframe: the accumulator after the minutes i.. of m1
RollupAcc(acc, tf, m1, i) ==
    IF i > Len(m1.keys) THEN acc
    ELSE LET k == m1.keys[i]
         IN RollupAcc(RollupEntry(acc, <<k[1], FloorToBucket(k[2], TF_CFG[tf])>>,
                                  m1.data[k]),
                      tf, m1, i + 1)

\* rollup_from_minutes: the new _tf_acc
RollupFromMinutes(accs, m1) ==
    [tf \in HigherTFSet |-> RollupAcc(accs[tf], tf, m1, 1)]

\* rollup_from_minutes: the touched keys of a timeframe
Touched(tf, m1) ==
    {<<k[1], FloorToBucket(k[2], TF_CFG[tf])>> : k \in DOMAIN m1.data}

\* persist_open: the touched keys of a timeframe that are still open
OpenKeysAll(tf, keys, latest) == keys

OpenKeys(tf, keys, latest) == {k \in keys : k[2] + TF_CFG[tf] > latest}

\* persist_open: now - last < _open_flush_secs
Throttled(t, last) == t - last < OpenFlushMs

ToPersistUngated(acc, tf, keys, latest) ==
    LET sel == {k \in OpenKeys(tf, keys, latest) :
                   k \in DOMAIN acc /\ DOMAIN acc[k] # {}}
    IN [k \in sel |-> acc[k]]

\* persist_open: to_persist of one timeframe
ToPersist(acc, tf, keys, latest) ==
    LET sel == {k \in OpenKeys(tf, keys, latest) :
                   /\ IsHistoricalComplete(k[1], tf, k[2])
                   /\ k \in DOMAIN acc /\ DOMAIN acc[k] # {}}
    IN [k \in sel |-> acc[k]]

\* the minute-id attachment of _process_batch, one minute key into one accumulator
AttachEntry(acc, key, mid) ==
    LET c == IF key \in DOMAIN acc THEN acc[key] ELSE <<>>
        ids == IF "minute_candle_ids" \in DOMAIN c THEN c.minute_candle_ids ELSE {}
    IN Put(acc, key, Put(c, "minute_candle_ids",
                         IF mid # None THEN ids \cup {mid} ELSE ids))

RECURSIVE AttachAcc(_, _, _, _, _)
AttachAcc(acc, tf, keys, ids, i) ==
    IF i > Len(keys) THEN acc
    ELSE LET k == keys[i]
         IN AttachAcc(AttachEntry(acc, <<k[1], FloorToBucket(k[2], TF_CFG[tf])>>,
                                  ids[k]),
                      tf, keys, ids, i + 1)

FlushPopKept(acc, key) == acc

\* flush_closed: acc.pop(key, None), taken on both branches of the gate
FlushPop(acc, key) == Del(acc, {key})

\* flush_closed: the entries of list(acc.items()) whose bucket has closed
ClosedKeys(acc, tf, latest) ==
    KeySeq({k \in DOMAIN acc : k[2] + TF_CFG[tf] <= latest})

\* reset_for_asset
ResetForAsset(accs, aid) ==
    [tf \in HigherTFSet |-> Del(accs[tf], {k \in DOMAIN accs[tf] : k[1] = aid})]

\* assets whose fetch_historical_data job is between taking the running flag
\* and its last write
JobWriting == {job[w].asset : w \in {w \in Workers : job[w].pc \in {"step1", "step2"}}}

MaxBatches == 2

IdleBatch == [pc |-> "idle", n |-> 0, call |-> 0, latest |-> None,
              m1 |-> EmptyDict, ids |-> <<>>, tfs |-> <<>>, tfi |-> 0,
              pnow |-> 0, pending |-> <<>>, gate |-> <<>>, items |-> <<>>,
              key |-> <<>>, flushed |-> FALSE, s2i |-> <<>>, i2c |-> <<>>]

\* the last higher-timeframe save_candles call seen, and open_at: per timeframe
\* the wall-clock time of the last save_candles call of persist_open
NoWrite == [src |-> "none", tf |-> TF_1T, updates |-> <<>>, busy |-> {},
            reopened |-> {}, was_skipped |-> {},
            open_at |-> [tf \in HigherTFSet |-> None]]

MinuteIdsStoreBeforeSaves(before, after) == before

\* the store fetch_minute_ids reads: the one left by both 1T save_candles calls
MinuteIdsStore(before, after) == after

\* _process_batch up to the first persist_open: both 1T saves, fetch_minute_ids
\* and rollup_from_minutes. An exception of parse_tick_timestamp is caught
\* neither here nor in _batch_processor_loop: the drain thread ends with
\* whatever was saved before the raise.
BatchBody(msgs, s2i, i2c) ==
    /\ ws_running
    /\ bl.n < MaxBatches
    /\ LET at == RaisesAt(msgs, s2i)
           bars == BarCandles(msgs, s2i, i2c, EmptyDict)
           st1 == IF \E i \in 1..Len(msgs) : msgs[i].T = "b"
                  THEN SaveCandles(store, TF_1T, bars.data, "delta") ELSE store
           trades == M1Map(msgs, s2i, i2c, EmptyDict)
           st2 == SaveCandles(st1, TF_1T, trades.data, "delta")
           latest == LatestTs2(msgs, trades)
           m1 == MergeBars(trades, bars, 1)
       IN /\ store' = CASE at = "bars" -> store
                        [] at = "trades" -> st1
                        [] OTHER -> st2
          /\ IF at # "none"
             THEN /\ bl' = [IdleBatch EXCEPT !.pc = "dead", !.n = bl.n + 1]
                  /\ UNCHANGED tf_acc
             ELSE IF latest = None
             THEN /\ bl' = [IdleBatch EXCEPT !.n = bl.n + 1]
                  /\ UNCHANGED tf_acc
             ELSE /\ tf_acc' = RollupFromMinutes(tf_acc, m1)
                  /\ bl' = [IdleBatch EXCEPT
                              !.pc = "persist", !.n = bl.n + 1, !.call = 1,
                              !.latest = latest, !.m1 = m1,
                              !.ids = [k \in DOMAIN m1.data |->
                                        MinuteId(MinuteIdsStore(store, st2), k)],
                              !.tfs = IF m1.keys = <<>> THEN <<>> ELSE HigherTFs,
                              !.tfi = 1, !.pnow = now]
    /\ UNCHANGED <<sv, hist, foreign, coordVars, now, cache_down, connVars, fl, ro, message_buffer, last_open_flush, lastw,
                   evicted, skipped, subVars>>

\* _process_batch on a message list, the two cache copies taken in one step
BatchBegin(msgs) == bl.pc = "idle" /\ BatchBody(msgs, asset_cache, asset_class_cache)

\* _asset_lock is held by the reconcile thread between its two cache updates
\* and by the batch thread between its two copies
AssetLockFreeUnguarded == TRUE

AssetLockFree == bl.pc # "snap" /\ \A t \in DOMAIN rec : rec[t].pc # "cache"

\* _process_batch: sym_to_id = asset_cache.copy(), under _asset_lock
SnapshotSymbols ==
    /\ bl.pc = "idle"
    /\ bl.n < MaxBatches
    /\ AssetLockFree
    /\ bl' = [bl EXCEPT !.pc = "snap", !.s2i = asset_cache]
    /\ UNCHANGED <<coordVars, storeVars, now, cache_down, connVars, fl, ro, message_buffer, tf_acc,
                   last_open_flush, lastw, evicted, skipped, subVars>>

\* _process_batch: id_to_class = asset_class_cache.copy(); the lock is released
SnapshotClasses ==
    /\ bl.pc = "snap"
    /\ bl' = [bl EXCEPT !.pc = "snapped", !.i2c = asset_class_cache]
    /\ UNCHANGED <<coordVars, storeVars, now, cache_down, connVars, fl, ro, message_buffer, tf_acc,
                   last_open_flush, lastw, evicted, skipped, subVars>>

\* _process_batch after the copies: the batch works on its snapshot
BatchFromSnapshot(msgs) == bl.pc = "snapped" /\ BatchBody(msgs, bl.s2i, bl.i2c)

\* persist_open, one timeframe: the throttle and the selection of to_persist
PersistCheck ==
    /\ bl.pc = "persist"
    /\ bl.tfi <= Len(bl.tfs)
    /\ LET tf == bl.tfs[bl.tfi]
           keys == Touched(tf, bl.m1)
           open == OpenKeys(tf, keys, bl.latest)
           tp == ToPersist(tf_acc[tf], tf, keys, bl.latest)
       IN IF Throttled(bl.pnow, last_open_flush[tf])
          THEN /\ bl' = [bl EXCEPT !.tfi = @ + 1, !.gate = <<>>]
               /\ UNCHANGED skipped
          ELSE /\ bl' = IF DOMAIN tp = {}
                        THEN [bl EXCEPT !.tfi = @ + 1,
                                 !.gate = [k \in open |->
                                             IsHistoricalComplete(k[1], tf, k[2])]]
                        ELSE [bl EXCEPT !.pc = "save", !.pending = tp,
                                 !.gate = [k \in open |->
                                             IsHistoricalComplete(k[1], tf, k[2])]]
               /\ skipped' = skipped \cup
                     {<<tf, k[1], k[2]>> : k \in {k \in open :
                            ~IsHistoricalComplete(k[1], tf, k[2])}}
    /\ UNCHANGED <<coordVars, storeVars, now, cache_down, connVars, fl, ro, message_buffer, tf_acc, last_open_flush, lastw,
                   evicted, subVars>>

OpenWriteModeDelta == "delta"

\* persist_open: the write_mode it passes to save_candles
OpenWriteMode == "snapshot"

\* persist_open, one timeframe: save_candles(tf, to_persist, write_mode="snapshot")
PersistSave ==
    /\ bl.pc = "save"
    /\ LET tf == bl.tfs[bl.tfi]
       IN /\ store' = SaveCandles(store, tf, bl.pending, OpenWriteMode)
          /\ last_open_flush' = [last_open_flush EXCEPT ![tf] = bl.pnow]
          /\ lastw' = [src |-> "open", tf |-> tf, updates |-> bl.pending,
                       busy |-> {k[1] : k \in DOMAIN bl.pending} \cap JobWriting,
                       reopened |-> {k \in DOMAIN bl.pending :
                                        <<tf, k[1], k[2]>> \in evicted},
                       was_skipped |-> {k \in DOMAIN bl.pending :
                                           <<tf, k[1], k[2]>> \in skipped},
                       open_at |-> [lastw.open_at EXCEPT ![tf] = now]]
          /\ skipped' = skipped \ {<<tf, k[1], k[2]>> : k \in DOMAIN bl.pending}
    /\ bl' = [bl EXCEPT !.pc = "persist", !.tfi = @ + 1, !.pending = <<>>]
    /\ UNCHANGED <<sv, hist, foreign, coordVars, now, cache_down, connVars, fl, ro, message_buffer, tf_acc, evicted, subVars>>

\* _process_batch between the two persist_open calls: minute ids into the accumulators
Attach ==
    /\ bl.pc = "persist"
    /\ bl.tfi > Len(bl.tfs)
    /\ bl.call = 1
    /\ tf_acc' = [tf \in HigherTFSet |->
                     AttachAcc(tf_acc[tf], tf, bl.m1.keys, bl.ids, 1)]
    /\ bl' = [bl EXCEPT !.call = 2, !.tfi = 1, !.pnow = now, !.gate = <<>>]
    /\ UNCHANGED <<coordVars, storeVars, now, cache_down, connVars, fl, ro, message_buffer, last_open_flush, lastw, evicted,
                   skipped, subVars>>

\* _process_batch after the second persist_open: flush_closed starts on the first timeframe
FlushBegin ==
    /\ bl.pc = "persist"
    /\ bl.tfi > Len(bl.tfs)
    /\ bl.call = 2
    /\ bl' = [bl EXCEPT !.pc = "flush", !.tfi = 1, !.gate = <<>>,
                 !.items = ClosedKeys(tf_acc[HigherTFs[1]], HigherTFs[1], bl.latest)]
    /\ UNCHANGED <<coordVars, storeVars, now, cache_down, connVars, fl, ro, message_buffer, tf_acc, last_open_flush, lastw,
                   evicted, skipped, subVars>>

ShouldWriteClosedAlways(complete, closed_data) == DOMAIN closed_data # {}

\* flush_closed: the popped entry is saved when the gate passed and it is non-empty
ShouldWriteClosed(complete, closed_data) == complete /\ DOMAIN closed_data # {}

\* flush_closed, one closed entry: the gate, then acc.pop
FlushStep ==
    /\ bl.pc = "flush"
    /\ bl.items # <<>>
    /\ LET tf == HigherTFs[bl.tfi]
           key == Head(bl.items)
           closed_data == IF key \in DOMAIN tf_acc[tf] THEN tf_acc[tf][key] ELSE <<>>
       IN /\ tf_acc' = [tf_acc EXCEPT ![tf] = FlushPop(@, key)]
          /\ evicted' = evicted \cup {<<tf, key[1], key[2]>>}
          /\ bl' = IF ShouldWriteClosed(IsHistoricalComplete(key[1], tf, key[2]),
                                        closed_data)
                   THEN [bl EXCEPT !.pc = "flush_save",
                            !.pending = [k \in {key} |-> closed_data],
                            !.key = IF <<tf, key[1], key[2]>> \in evicted
                                    THEN <<key>> ELSE <<>>]
                   ELSE [bl EXCEPT !.items = Tail(@)]
    /\ UNCHANGED <<coordVars, storeVars, now, cache_down, connVars, fl, ro, message_buffer, last_open_flush, lastw, skipped, subVars>>

\* flush_closed, one closed entry: save_candles(tf, {key: closed_data}, write_mode="snapshot")
FlushSave ==
    /\ bl.pc = "flush_save"
    /\ LET tf == HigherTFs[bl.tfi]
       IN /\ store' = SaveCandles(store, tf, bl.pending, "snapshot")
          /\ lastw' = [src |-> "closed", tf |-> tf, updates |-> bl.pending,
                       busy |-> {k[1] : k \in DOMAIN bl.pending} \cap JobWriting,
                       reopened |-> Range(bl.key),
                       was_skipped |-> {},
                       open_at |-> lastw.open_at]
    /\ bl' = [bl EXCEPT !.pc = "flush", !.items = Tail(@), !.pending = <<>>,
                 !.key = <<>>]
    /\ UNCHANGED <<sv, hist, foreign, coordVars, now, cache_down, connVars, fl, ro, message_buffer, tf_acc, last_open_flush,
                   evicted, skipped, subVars>>

\* flush_closed: on to the next timeframe, or return (and _process_batch with it)
FlushNextTf ==
    /\ bl.pc = "flush"
    /\ bl.items = <<>>
    /\ bl' = IF bl.tfi < Len(HigherTFs)
             THEN [bl EXCEPT !.tfi = @ + 1,
                      !.items = ClosedKeys(tf_acc[HigherTFs[bl.tfi + 1]],
                                           HigherTFs[bl.tfi + 1], bl.latest)]
             ELSE [IdleBatch EXCEPT !.n = bl.n, !.latest = bl.latest,
                      !.flushed = TRUE]
    /\ UNCHANGED <<coordVars, storeVars, now, cache_down, connVars, fl, ro, message_buffer, tf_acc, last_open_flush, lastw,
                   evicted, skipped, subVars>>

\* --------------------------------------------------- SubscriptionManager
Channels == {"stocks", "crypto"}

Threads == {"loop", "stocks", "crypto"}

SymbolOf(aid) == (CHOOSE r \in AssetTable : r.id = aid).symbol

\* get_watchlist_symbols
WatchlistSymbols(active) ==
    {SymbolOf(r.asset_id) : r \in {r \in WatchListAssetRows : r.id \in active}}

\* request_backfill run without interleaving, on g = [queued, task_queue, setters, ...]
RequestBackfill(g, aid) ==
    IF aid \in g.queued THEN g
    ELSE [g EXCEPT !.queued = @ \cup {aid},
                   !.setters = [@ EXCEPT ![aid] = @ + 1],
                   !.task_queue = ApplyAsync(@, job, aid)]

\* BackfillGuard._maybe_schedule; g.scheduled collects the assets it returned True for;
\* with the cache down request_backfill raises: the finally clause stamps
\* _last_request and the caller's except skips the asset
MaybeScheduleNoCooldown(g, aid, t, active) ==
    IF \E r \in WatchListAssetRows : r.id \in active /\ r.asset_id = aid
    THEN IF g.down
         THEN [g EXCEPT !.last_request = [@ EXCEPT ![aid] = t]]
         ELSE [RequestBackfill(g, aid) EXCEPT
                  !.last_request = [@ EXCEPT ![aid] = t],
                  !.scheduled = @ \cup {aid}]
    ELSE g

MaybeSchedule(g, aid, t, active) ==
    IF /\ t - g.last_request[aid] >= CooldownMs
       /\ \E r \in WatchListAssetRows : r.id \in active /\ r.asset_id = aid
    THEN IF g.down
         THEN [g EXCEPT !.last_request = [@ EXCEPT ![aid] = t]]
         ELSE [RequestBackfill(g, aid) EXCEPT
                  !.last_request = [@ EXCEPT ![aid] = t],
                  !.scheduled = @ \cup {aid}]
    ELSE g

RECURSIVE MaybeScheduleForAssets(_, _, _, _, _)
\* BackfillGuard.maybe_schedule_for_assets
MaybeScheduleForAssets(g, aids, st, t, active) ==
    IF aids = <<>> THEN g
    ELSE LET aid == Head(aids)
             latest == LatestTs(st, TF_1T, aid)
             g1 == IF latest = None \/ t - TsMs(latest) > GapThresholdMs
                   THEN MaybeSchedule(g, aid, t, active) ELSE g
         IN MaybeScheduleForAssets(g1, Tail(aids), st, t, active)

RECURSIVE ResetAll(_, _)
\* _on_assets_added: reset_for_asset for each scheduled asset
ResetAll(accs, aids) ==
    IF aids = {} THEN accs
    ELSE LET a == CHOOSE a \in aids : TRUE
         IN ResetAll(ResetForAsset(accs, a), aids \ {a})

\* _send_subscription: the control frames one send(action, symbols) puts on the sockets
SendSubscription(action, symbols, s2i, i2c, auth, conn) ==
    LET known == {s \in symbols : s \in DOMAIN s2i}
        crypto == {s \in known : ClassOf(i2c, s2i[s]) = "crypto"}
        stocks == known \ crypto
    IN (IF auth /\ "stocks" \in conn /\ stocks # {}
        THEN <<[ch |-> "stocks", action |-> action, symbols |-> stocks]>> ELSE <<>>)
       \o
       (IF auth /\ "crypto" \in conn /\ crypto # {}
        THEN <<[ch |-> "crypto", action |-> action, symbols |-> crypto]>> ELSE <<>>)

\* again: the assets the call stamped in _last_request that had a stamp already
IdleRec == [pc |-> "idle", current |-> {}, before |-> {}, sent |-> <<>>,
            frames |-> <<>>, scheduled |-> {}, again |-> {}]

ReconcileGoneNone(current, subscribed) == {}

\* reconcile: gone = subscribed_symbols - current
ReconcileGone(current, subscribed) == subscribed \ current

\* reconcile: new = current - subscribed_symbols
ReconcileNew(current, subscribed) == current \ subscribed

\* _sock_ready_stocks / _sock_ready_crypto
SockReady == {ch \in Channels : chan[ch] # "closed"}

\* _run_stocks / _run_crypto: time.sleep(10) after run_forever returns
BackoffMs == 10000

\* _run_stocks / _run_crypto reconnect once the backoff is over; on_open:
\* _authenticate stamps auth_start_time and the auth frame goes out
OnOpen(ch) ==
    /\ ws_running
    /\ chan[ch] = "closed"
    /\ now >= retry_at[ch]
    /\ chan' = [chan EXCEPT ![ch] = "open"]
    /\ auth_start_time' = now
    /\ auth_sent_at' = [auth_sent_at EXCEPT ![ch] = now]
    /\ UNCHANGED <<fl, ro, message_buffer>>
    /\ UNCHANGED <<coordVars, storeVars, now, cache_down, ws_running, retry_at,
                   aggVars, wla_active, subscribed_symbols, asset_cache,
                   asset_class_cache, last_request, authenticated, rec>>

\* an on_close that leaves the authentication state as it was
OnCloseKeepsAuth(ch) ==
    /\ chan[ch] # "closed"
    /\ chan' = [chan EXCEPT ![ch] = "closed"]
    /\ retry_at' = [retry_at EXCEPT ![ch] = now + BackoffMs]
    /\ auth_sent_at' = [auth_sent_at EXCEPT ![ch] = None]
    /\ UNCHANGED <<fl, ro, message_buffer>>
    /\ UNCHANGED <<coordVars, storeVars, now, cache_down, ws_running, aggVars,
                   wla_active, subscribed_symbols, asset_cache, asset_class_cache,
                   last_request, rec, authenticated, auth_start_time>>

\* on_close of a channel; run_forever returns and its runner starts the 10 s sleep
OnClose(ch) ==
    /\ chan[ch] # "closed"
    /\ chan' = [chan EXCEPT ![ch] = "closed"]
    /\ authenticated' = FALSE
    /\ auth_start_time' = None
    /\ retry_at' = [retry_at EXCEPT ![ch] = now + BackoffMs]
    /\ auth_sent_at' = [auth_sent_at EXCEPT ![ch] = None]
    /\ UNCHANGED <<fl, ro, message_buffer>>
    /\ UNCHANGED <<coordVars, storeVars, now, cache_down, ws_running, aggVars,
                   wla_active, subscribed_symbols, asset_cache, asset_class_cache,
                   last_request, rec>>

\* _run_stocks/_run_crypto: the runner finds running set (and its sleep over)
\* and goes on to call run_forever
RunnerCheck(ch) ==
    /\ ws_running
    /\ chan[ch] = "closed"
    /\ now >= retry_at[ch]
    /\ chan' = [chan EXCEPT ![ch] = "connecting"]
    /\ UNCHANGED <<coordVars, storeVars, now, cache_down, connVars, fl, ro, message_buffer, aggVars,
                   wla_active, subscribed_symbols, asset_cache, asset_class_cache,
                   last_request, authenticated, rec>>

\* run_forever connects and on_open sends the auth frame
RunForever(ch) ==
    /\ chan[ch] = "connecting"
    /\ chan' = [chan EXCEPT ![ch] = "open"]
    /\ auth_start_time' = now
    /\ auth_sent_at' = [auth_sent_at EXCEPT ![ch] = now]
    /\ UNCHANGED <<coordVars, storeVars, now, cache_down, ws_running, retry_at, fl, ro, message_buffer,
                   aggVars, wla_active, subscribed_symbols, asset_cache,
                   asset_class_cache, last_request, authenticated, rec>>

\* WebSocketApp.close(): a connected socket is closed; on a socket whose
\* run_forever has not started yet it closes nothing
ClosedByClose(st) == IF st = "connecting" THEN "connecting" ELSE "closed"

\* stop(), reached from an authentication error message on a channel: running
\* is cleared and both sockets are closed, each with its on_close
OnAuthError(ch) ==
    /\ chan[ch] = "open"
    /\ ws_running' = FALSE
    /\ chan' = [c \in Channels |-> ClosedByClose(chan[c])]
    /\ authenticated' = FALSE
    /\ auth_start_time' = None
    /\ auth_sent_at' = [c \in Channels |-> None]
    /\ UNCHANGED <<fl, ro, message_buffer>>
    /\ UNCHANGED <<coordVars, storeVars, now, cache_down, retry_at, aggVars,
                   wla_active, subscribed_symbols, asset_cache, asset_class_cache,
                   last_request, rec>>

\* self.auth_timeout
AuthTimeoutMs == 30000

\* the condition _auth_timeout_checker_loop tests every 5 s
AuthTimedOut ==
    /\ auth_start_time # None
    /\ ~authenticated
    /\ now - auth_start_time > AuthTimeoutMs

\* _auth_timeout_checker_loop finds the condition true: auth_start_time is
\* cleared and both sockets are closed, each open one with its on_close
AuthTimeoutCheck ==
    /\ ws_running
    /\ AuthTimedOut
    /\ auth_start_time' = None
    /\ authenticated' = FALSE
    /\ chan' = [c \in Channels |-> ClosedByClose(chan[c])]
    /\ retry_at' = [c \in Channels |->
                       IF chan[c] \in {"open", "authed"}
                       THEN now + BackoffMs ELSE retry_at[c]]
    /\ auth_sent_at' = [c \in Channels |-> None]
    /\ UNCHANGED <<fl, ro, message_buffer>>
    /\ UNCHANGED <<coordVars, storeVars, now, cache_down, ws_running, aggVars,
                   wla_active, subscribed_symbols, asset_cache, asset_class_cache,
                   last_request, rec>>

\* on_message_*: the success/authenticated message of a connection; reconcile
\* starts on the channel's thread and reads the watchlist symbols
OnAuthSuccess(ch) ==
    /\ chan[ch] = "open"
    /\ rec[ch].pc = "idle"
    /\ chan' = [chan EXCEPT ![ch] = "authed"]
    /\ authenticated' = TRUE
    /\ rec' = [rec EXCEPT ![ch] = [IdleRec EXCEPT !.pc = "lock",
                                      !.current = WatchlistSymbols(wla_active)]]
    /\ UNCHANGED <<coordVars, storeVars, now, cache_down, connVars, fl, ro, message_buffer, aggVars, wla_active, subscribed_symbols,
                   asset_cache, asset_class_cache, last_request>>

\* _subscription_manager_loop: reconcile starts and reads the watchlist symbols
ReconcileLoop ==
    /\ ws_running
    /\ authenticated
    /\ rec["loop"].pc = "idle"
    /\ rec' = [rec EXCEPT !["loop"] = [IdleRec EXCEPT !.pc = "lock",
                                          !.current = WatchlistSymbols(wla_active)]]
    /\ UNCHANGED <<coordVars, storeVars, now, cache_down, connVars, fl, ro, message_buffer, aggVars, wla_active, subscribed_symbols,
                   asset_cache, asset_class_cache, last_request, authenticated, chan>>

\* update_asset_cache: asset_cache.update(new_mappings)
SymbolMap(cache, assets) ==
    [s \in DOMAIN cache \cup {r.symbol : r \in assets} |->
        IF \E r \in assets : r.symbol = s
        THEN (CHOOSE r \in assets : r.symbol = s).id
        ELSE cache[s]]

\* update_asset_cache: asset_class_cache[a["id"]] = a["asset_class"]
ClassMap(cache, assets) ==
    [i \in DOMAIN cache \cup {r.id : r \in assets} |->
        IF \E r \in assets : r.id = i
        THEN (CHOOSE r \in assets : r.id = i).asset_class
        ELSE cache[i]]

\* reconcile under _sub_lock, with update_asset_cache and _on_assets_added
ReconcileBody(th) ==
    /\ LET current == rec[th].current
           new == ReconcileNew(current, subscribed_symbols)
           gone == ReconcileGone(current, subscribed_symbols)
           assets == {r \in AssetTable : r.symbol \in new}
           s2i == SymbolMap(asset_cache, assets)
           i2c == ClassMap(asset_class_cache, assets)
           g0 == [queued |-> queued, task_queue |-> task_queue, setters |-> setters,
                  last_request |-> last_request, scheduled |-> {},
                  down |-> cache_down]
           g == IF assets = {} THEN g0
                ELSE MaybeScheduleForAssets(g0, DescSeq({r.id : r \in assets}),
                                            store, now, wla_active)
           sub == IF new # {} THEN <<[action |-> "subscribe", symbols |-> new]>>
                  ELSE <<>>
           unsub == IF gone # {} THEN <<[action |-> "unsubscribe", symbols |-> gone]>>
                    ELSE <<>>
       IN /\ asset_cache' = s2i
          /\ asset_class_cache' = i2c
          /\ queued' = g.queued
          /\ task_queue' = g.task_queue
          /\ setters' = g.setters
          /\ last_request' = g.last_request
          /\ tf_acc' = ResetAll(tf_acc, g.scheduled)
          /\ subscribed_symbols' = (subscribed_symbols \cup new) \ gone
          /\ rec' = [t \in Threads |->
                IF t # th
                THEN IF rec[t].pc = "lock" THEN rec[t] ELSE IdleRec
                ELSE
                [pc |-> "idle", current |-> current, before |-> subscribed_symbols,
                 sent |-> sub \o unsub, scheduled |-> g.scheduled,
                 again |-> {a \in DOMAIN last_request :
                              last_request[a] > 0 /\ g.last_request[a] # last_request[a]},
                 frames |->
                    (IF new # {}
                     THEN SendSubscription("subscribe", new, s2i, i2c,
                                           authenticated, SockReady) ELSE <<>>)
                    \o
                    (IF gone # {}
                     THEN SendSubscription("unsubscribe", gone, s2i, i2c,
                                           authenticated, SockReady) ELSE <<>>)]]
    /\ UNCHANGED <<running, completed, job, rb, storeVars, now, cache_down, connVars, fl, ro, message_buffer, last_open_flush, bl,
                   lastw, evicted, skipped, wla_active, authenticated, chan>>

\* _sub_lock is held by a thread inside its locked section
SubLockFree == \A t \in DOMAIN rec : rec[t].pc \notin {"cache", "added"}

\* the locked section of reconcile, taken in one step
ReconcileLocked(th) == rec[th].pc = "lock" /\ SubLockFree /\ ReconcileBody(th)

\* the rows update_asset_cache reads for the new symbols of thread th
NewAssets(th) ==
    {r \in AssetTable : r.symbol \in ReconcileNew(rec[th].current, subscribed_symbols)}

\* update_asset_cache under _asset_lock: the symbol map is updated first
CacheUpdateSymbols(th) ==
    /\ rec[th].pc = "lock"
    /\ SubLockFree
    /\ AssetLockFree
    /\ NewAssets(th) # {}
    /\ asset_cache' = SymbolMap(asset_cache, NewAssets(th))
    /\ rec' = [rec EXCEPT ![th].pc = "cache"]
    /\ UNCHANGED <<coordVars, storeVars, now, cache_down, connVars, fl, ro, message_buffer, aggVars,
                   wla_active, subscribed_symbols, asset_class_cache,
                   last_request, authenticated, chan>>

\* update_asset_cache under _asset_lock: then the class map; the lock is released
CacheUpdateClasses(th) ==
    /\ rec[th].pc = "cache"
    /\ asset_class_cache' = ClassMap(asset_class_cache, NewAssets(th))
    /\ rec' = [rec EXCEPT ![th].pc = "added"]
    /\ UNCHANGED <<coordVars, storeVars, now, cache_down, connVars, fl, ro, message_buffer, aggVars,
                   wla_active, subscribed_symbols, asset_cache,
                   last_request, authenticated, chan>>

\* reconcile after update_asset_cache's locked block: _on_assets_added, the
\* frames and subscribed_symbols
ReconcileAdded(th) == rec[th].pc = "added" /\ ReconcileBody(th)

\* WatchListViewSet.add_asset on the row id: request_backfill for its asset,
\* then the row is (re)activated
AddAsset(id) ==
    LET aid == (CHOOSE r \in WatchListAssetRows : r.id = id).asset_id
        g == RequestBackfill([queued |-> queued, task_queue |-> task_queue,
                              setters |-> setters], aid)
    IN /\ queued' = g.queued
       /\ task_queue' = g.task_queue
       /\ setters' = g.setters
       /\ wla_active' = wla_active \cup {id}
       /\ UNCHANGED <<running, completed, job, rb, storeVars, now, cache_down, connVars, fl, ro, message_buffer, aggVars,
                      subscribed_symbols, asset_cache, asset_class_cache,
                      last_request, authenticated, chan, rec>>

\* WatchListViewSet.remove_asset on an active row
RemoveAsset(id) ==
    /\ id \in wla_active
    /\ wla_active' = wla_active \ {id}
    /\ UNCHANGED <<coordVars, storeVars, now, cache_down, connVars, fl, ro, message_buffer, aggVars, subscribed_symbols, asset_cache,
                   asset_class_cache, last_request, authenticated, chan, rec>>

LiveInit ==
    /\ now = StartMs
    /\ cache_down = FALSE
    /\ auth_start_time = None
    /\ ws_running = TRUE
    /\ retry_at = [ch \in Channels |-> 0]
    /\ auth_sent_at = [ch \in Channels |-> None]
    /\ fl = NoFloor
    /\ message_buffer = EmptyBuffer
    /\ ro = NoRollup
    /\ tf_acc = [tf \in HigherTFSet |-> <<>>]
    /\ last_open_flush = [tf \in HigherTFSet |-> 0]
    /\ bl = IdleBatch
    /\ lastw = NoWrite
    /\ evicted = {}
    /\ skipped = {}
    /\ wla_active = {1, 3}
    /\ subscribed_symbols = {}
    /\ asset_cache = <<>>
    /\ asset_class_cache = <<>>
    /\ last_request = [a \in Assets |-> 0]
    /\ authenticated = FALSE
    /\ chan = [ch \in Channels |-> "closed"]
    /\ rec = [th \in Threads |-> IdleRec]

\* --------------------------------------------- save_candles, interleaved
\* the OHLCV dicts handed to save_candles
SaveData ==
    {[open |-> 2, high |-> 2, low |-> 2, close |-> 2, volume |-> 1],
     [open |-> 1, high |-> 3, low |-> 1, close |-> 3, volume |-> 2],
     [open |-> 3, high |-> 4, low |-> 2, close |-> 2, volume |-> 1],
     [minute_candle_ids |-> {1}],
     [open |-> None, high |-> None, low |-> None, close |-> None, volume |-> 1]}

SaveKeys == {<<1, 0>>}

IdleSave == [pc |-> "idle", tf |-> TF_1T, updates |-> <<>>, mode |-> "delta",
             existing |-> <<>>, ignored |-> {}, n |-> 0]

NoHist == [highs |-> {}, lows |-> {}, vols |-> <<>>]

HistOf(k) == IF k \in DOMAIN hist THEN hist[k] ELSE NoHist

\* save_candles up to the query for the existing rows
SaveRead(tf, updates, mode) ==
    /\ sv.pc = "idle"
    /\ sv.n < MaxWrites
    /\ sv' = [pc |-> "write", tf |-> tf, updates |-> updates, mode |-> mode,
              existing |-> Existing(store, tf, DOMAIN updates),
              ignored |-> sv.ignored, n |-> sv.n + 1]
    /\ UNCHANGED <<store, hist, foreign, coordVars, liveVars>>

\* save_candles when the query for the existing rows fails in the storage
\* layer: the query runs before the try block, the exception leaves
\* save_candles and, uncaught by persist_open, flush_closed, _process_batch
\* and _batch_processor_loop, ends the calling thread
SaveReadFails(tf, updates, mode) ==
    /\ sv.pc = "idle"
    /\ sv.n < MaxWrites
    /\ DOMAIN updates # {}
    /\ sv' = [IdleSave EXCEPT !.pc = "raised", !.tf = tf, !.updates = updates,
                              !.mode = mode, !.ignored = sv.ignored, !.n = sv.n + 1]
    /\ UNCHANGED <<store, hist, foreign, coordVars, liveVars>>

\* save_candles when the storage layer fails inside transaction.atomic(): the
\* transaction is rolled back, the exception is logged and swallowed
SaveWriteFails ==
    /\ sv.pc = "write"
    /\ sv' = [IdleSave EXCEPT !.n = sv.n, !.ignored = sv.ignored]
    /\ UNCHANGED <<store, hist, foreign, coordVars, liveVars>>

\* the keys of a save_candles call whose data reached a row
Committed(st, tf, updates, existing, snapshot) ==
    IF ~WriteOk(tf, updates, existing, snapshot) THEN {}
    ELSE {k \in DOMAIN updates :
            k \in DOMAIN existing \/ RowIds(st, tf, k[1], k[2]) = {}}

\* save_candles from the merge loop to the end of the transaction
SaveWrite ==
    /\ sv.pc = "write"
    /\ LET snap == sv.mode = "snapshot"
           done == Committed(store, sv.tf, sv.updates, sv.existing, snap)
       IN /\ store' = SaveWriteTxn(store, sv.tf, sv.updates, sv.existing, snap)
          /\ hist' = [k \in DOMAIN hist \cup {<<sv.tf, d[1], d[2]>> : d \in done} |->
                IF k[1] = sv.tf /\ <<k[2], k[3]>> \in done
                THEN [highs |-> HistOf(k).highs \cup
                                  ({Get(sv.updates[<<k[2], k[3]>>], "high")} \ {None}),
                      lows |-> HistOf(k).lows \cup
                                  ({Get(sv.updates[<<k[2], k[3]>>], "low")} \ {None}),
                      vols |-> Append(HistOf(k).vols,
                                  [mode |-> sv.mode,
                                   volume |-> Get(sv.updates[<<k[2], k[3]>>], "volume")])]
                ELSE hist[k]]
          /\ sv' = [IdleSave EXCEPT !.n = sv.n, !.ignored = sv.ignored \cup
                       IF WriteOk(sv.tf, sv.updates, sv.existing, snap)
                       THEN {<<sv.tf, k[1], k[2]>> : k \in DOMAIN sv.updates \ done}
                       ELSE {}]
    /\ UNCHANGED <<foreign, coordVars, liveVars>>

StoreInit ==
    /\ store = <<>>
    /\ sv = IdleSave
    /\ hist = <<>>
    /\ foreign = {}

\* the state after one request_backfill(1) has returned True
InitStore ==
    /\ queued = {1}
    /\ running = {}
    /\ completed = {}
    /\ task_queue = [a \in Assets |-> IF a = 1 THEN 1 ELSE 0]
    /\ job = [w \in Workers |-> IdleJob]
    /\ rb = [c \in Callers |-> IdleCall]
    /\ setters = [a \in Assets |-> IF a = 1 THEN 1 ELSE 0]
    /\ StoreInit
    /\ LiveInit

NextStore ==
    \/ \E tf \in {TF_5T}, k \in SaveKeys, d \in SaveData,
          mode \in {"delta", "snapshot"} :
            SaveRead(tf, [x \in {k} |-> d], mode)
    \/ SaveWrite
    \/ JobStart(1, 1)
    \/ JobStep1(1)
    \/ JobStep2(1)
    \/ JobMark(1)
    \/ JobFinally(1)

\* the store under save_candles calls racing with the backfill job
SpecStore == InitStore /\ [][NextStore]_vars

\* the row stored for a key
StoredRow(k) == store[CHOOSE i \in RowIds(store, k[1], k[2], k[3]) : TRUE]

\* keys that only save_candles has written
OwnKeys == {k \in DOMAIN hist : k \notin foreign}

RECURSIVE VolFold(_)
\* the volume a sequence of writes leaves: the last snapshot's, plus the deltas after it
VolFold(vs) ==
    IF vs = <<>> THEN 0
    ELSE LET l == vs[Len(vs)]
         IN IF l.mode = "snapshot" THEN OrZero(l.volume)
            ELSE VolFold(SubSeq(vs, 1, Len(vs) - 1)) + OrZero(l.volume)

\* C6: for every key written only by save_candles, in either write mode and
\* whatever the arrival order, the stored high is the maximum of all highs
\* merged into the key and the stored low the minimum of all lows.
C6_HighLowMonotone ==
    \A k \in OwnKeys :
        /\ RowIds(store, k[1], k[2], k[3]) # {}
        /\ StoredRow(k).high = MaxOf(hist[k].highs)
        /\ StoredRow(k).low = MinOf(hist[k].lows)

\* a key whose last merge carried neither the maximum high nor the minimum low
C6_Witness ==
    \E k \in OwnKeys :
        /\ hist[k].highs = {2, 3}
        /\ hist[k].lows = {1, 2}
        /\ StoredRow(k).close = 2
        /\ StoredRow(k).high = 3
        /\ StoredRow(k).low = 1

\* C7: N delta-mode saves to a key leave the stored volume v1+...+vN; a
\* snapshot-mode save leaves the snapshot's volume whatever was stored before.
C7_VolumeSemantics ==
    \A k \in OwnKeys :
        LET vs == hist[k].vols
        IN /\ (\A i \in 1..Len(vs) : vs[i].mode = "delta") =>
                StoredRow(k).volume = SumSeq([i \in 1..Len(vs) |-> OrZero(vs[i].volume)])
           /\ vs[Len(vs)].mode = "snapshot" =>
                StoredRow(k).volume = OrZero(vs[Len(vs)].volume)
           /\ StoredRow(k).volume = VolFold(vs)

\* two deltas summed to 3, then a snapshot of 1 replaced the sum
C7_Witness ==
    \E k \in OwnKeys :
        /\ Len(hist[k].vols) = 3
        /\ hist[k].vols[1] = [mode |-> "delta", volume |-> 1]
        /\ hist[k].vols[2] = [mode |-> "delta", volume |-> 2]
        /\ hist[k].vols[3] = [mode |-> "snapshot", volume |-> 1]
        /\ StoredRow(k).volume = 1

\* C8: the store never holds two rows with the same (asset, timeframe,
\* timestamp), also when a save_candles insert races with an insert of the
\* backfill job; later saves merge into the one row.
C8_KeyUniqueness ==
    \A i, j \in 1..Len(store) :
        (/\ store[i].asset_id = store[j].asset_id
         /\ store[i].timeframe = store[j].timeframe
         /\ store[i].timestamp = store[j].timestamp) => i = j

\* a save's insert lost the race against the job's insert of the same key,
\* and two later saves merged into that row
C8_Witness ==
    \E k \in sv.ignored :
        /\ k \in DOMAIN hist
        /\ Len(hist[k].vols) >= 2
        /\ Cardinality(RowIds(store, k[1], k[2], k[3])) = 1

\* ------------------------------------------- request_backfill, interleaved
InitCoord == CoordInit /\ StoreInit /\ LiveInit

NextCoord ==
    \/ \E c \in Callers, a \in Assets : RbAdd(c, a)
    \/ \E c \in Callers : RbDelay(c)
    \/ \E c \in Callers : RbReturn(c)
    \/ \E a \in Assets : ExpireQueued(a)
    \/ \E a \in Assets : ExpireRunning(a)
    \/ \E a \in Assets : ExpireCompleted(a)
    \/ \E a \in Assets : JobStart(1, a)
    \/ JobStep1(1)
    \/ JobStep2(1)
    \/ JobMark(1)
    \/ JobFinally(1)

\* concurrent request_backfill callers, one celery worker and the flag TTLs
SpecCoord == InitCoord /\ [][NextCoord]_vars

\* C1: within one lifetime of an asset's queued flag exactly one
\* request_backfill call returns True and that call enqueues the
\* fetch_historical_data job; every other call returns False and enqueues
\* nothing.
C1_OneCallEnqueues ==
    /\ \A a \in Assets : setters[a] <= 1 /\ (a \in queued => setters[a] = 1)
    /\ \A c \in Callers :
          rb[c].pc = "done" =>
             /\ rb[c].ret = "True" => rb[c].enq = 1
             /\ rb[c].ret = "False" => rb[c].enq = 0

\* ------------------------------------- the live path against the backfill job
\* the rows an earlier run of the job left for asset 1 when the API held the
\* historical minute only
PriorStore ==
    Step2Store(
        Step2Store(<<NewCandle(TF_1T, 1, HistTs, ApiBar(HistTs))>>, TF_5T, 1),
        TF_15T, 1)

\* construction on an empty table, or on the table an earlier run left behind
Init ==
    /\ CoordInit
    /\ LiveInit
    /\ store \in {<<>>, PriorStore}
    /\ sv = IdleSave
    /\ hist = <<>>
    /\ foreign = {}

Next ==
    \/ OnOpen("stocks")
    \/ OnAuthSuccess("stocks")
    \/ ReconcileLocked("stocks")
    \/ \E msgs \in StockBatches : BatchBegin(msgs)
    \/ PersistCheck
    \/ PersistSave
    \/ Attach
    \/ FlushBegin
    \/ FlushStep
    \/ FlushSave
    \/ FlushNextTf
    \/ JobStart(1, 1)
    \/ JobStep1(1)
    \/ JobStep2(1)
    \/ JobMark(1)
    \/ JobFinally(1)
    \/ Tick(OpenFlushMs)

Spec == Init /\ [][Next]_vars

\* a step of persist_open that examines the timeframe bl.tfs[bl.tfi]
PersistCheckStep == bl.pc = "persist" /\ bl.tfi <= Len(bl.tfs) /\ bl' # bl

\* the step of persist_open that calls save_candles
PersistSaveStep == bl.pc = "save" /\ bl' # bl

\* a step of flush_closed
FlushClosedStep == bl.pc \in {"flush", "flush_save"} /\ bl' # bl

\* rows of the store outside a set of keys of one timeframe are as before
OtherRowsKept(tf, keys) ==
    /\ Len(store') <= Len(store) + Cardinality(keys)
    /\ \A i \in 1..Len(store) :
          (store[i].timeframe # tf \/ <<store[i].asset_id, store[i].timestamp>> \notin keys)
             => store'[i] = store[i]
    /\ \A i \in (Len(store) + 1)..Len(store') :
          store'[i].timeframe = tf /\ <<store'[i].asset_id, store'[i].timestamp>> \in keys

\* C2: persist_open never hands save_candles a touched open key for which
\* is_historical_complete returned false at that call: the keys it selects all
\* passed the gate, the save touches rows of the selected keys only, and no
\* step of persist_open changes an accumulator entry.
C2_GateSuppressesWrite ==
    [][/\ PersistCheckStep =>
            /\ store' = store
            /\ tf_acc' = tf_acc
            /\ bl'.pc = "save" =>
                  \A k \in DOMAIN bl'.pending :
                      IsHistoricalComplete(k[1], bl.tfs[bl.tfi], k[2])
       /\ PersistSaveStep =>
            /\ tf_acc' = tf_acc
            /\ OtherRowsKept(bl.tfs[bl.tfi], DOMAIN bl.pending)]_vars

\* persist_open looked at an open touched 5T key with the gate false: nothing
\* was written for it and its accumulator entry is still in memory
C2_Witness ==
    /\ bl.pc = "persist"
    /\ bl.tfi = 2
    /\ \E k \in DOMAIN bl.gate :
          /\ ~bl.gate[k]
          /\ k \in DOMAIN tf_acc[TF_5T]
          /\ tf_acc[TF_5T][k].volume = 2
          /\ RowIds(store, TF_5T, k[1], k[2]) = {}

C4_NoLiveWriteDuringJob == lastw.busy = {}

\* C5: once flush_closed has evicted a closed bucket, the live path never
\* saves that bucket's row again, also not for a late tick.
C5_NoWriteAfterEviction == lastw.reopened = {}

\* C10: when flush_closed(latest) has returned no accumulator holds an entry
\* whose bucket end is <= latest, whether or not the gate let it be written,
\* and no step of flush_closed removes or changes an entry whose bucket end
\* is > latest.
C10_FlushEvictsClosedOnly ==
    [][/\ (bl'.pc = "idle" /\ bl'.flushed) =>
            \A tf \in HigherTFSet : \A k \in DOMAIN tf_acc'[tf] :
                k[2] + TF_CFG[tf] > bl'.latest
       /\ FlushClosedStep =>
            \A tf \in HigherTFSet : \A k \in DOMAIN tf_acc[tf] :
                k[2] + TF_CFG[tf] > bl.latest =>
                    k \in DOMAIN tf_acc'[tf] /\ tf_acc'[tf][k] = tf_acc[tf][k]]_vars

\* flush_closed(5) has returned: the 5T bucket 0 was evicted without a row
\* being written (gate false), the 5T bucket 5 and the 15T bucket 0 remain
C10_Witness ==
    /\ bl.pc = "idle"
    /\ bl.flushed
    /\ bl.latest = 5
    /\ <<TF_5T, 1, 0>> \in evicted
    /\ RowIds(store, TF_5T, 1, 0) = {}
    /\ DOMAIN tf_acc[TF_5T] = {<<1, 5>>}
    /\ DOMAIN tf_acc[TF_15T] = {<<1, 0>>}

\* ------------------------------------------------ subscriptions, interleaved
NextSub ==
    \/ OnOpen("stocks")
    \/ OnAuthSuccess("stocks")
    \/ OnClose("stocks")
    \/ ReconcileLoop
    \/ \E th \in Threads : ReconcileLocked(th)
    \/ \E id \in {1, 2, 3} : AddAsset(id)
    \/ \E id \in {1, 2, 3} : RemoveAsset(id)
    \/ Tick(CooldownMs)

\* the reconcile callers (the periodic loop and the stocks channel's auth
\* callback) against watchlist edits, reconnects and the cooldown
SpecSub == Init /\ [][NextSub]_vars

\* the locked section of a reconcile call of thread th
ReconcileStep(th) == rec[th].pc = "lock" /\ rec'[th].pc = "idle"

\* C9: a reconcile call whose desired set is the watchlist symbols it read
\* sends one subscribe holding desired - subscribed when that is non-empty,
\* then one unsubscribe holding subscribed - desired when that is non-empty,
\* and leaves subscribed_symbols equal to desired; when the two sets are equal
\* it sends nothing and changes no state.
C9_ReconcileDelta ==
    [][\A th \in Threads :
          ReconcileStep(th) =>
             LET desired == rec[th].current
                 sub == subscribed_symbols
             IN /\ rec'[th].sent =
                      (IF desired \ sub # {}
                       THEN <<[action |-> "subscribe", symbols |-> desired \ sub]>>
                       ELSE <<>>)
                      \o
                      (IF sub \ desired # {}
                       THEN <<[action |-> "unsubscribe", symbols |-> sub \ desired]>>
                       ELSE <<>>)
                /\ subscribed_symbols' = desired
                /\ desired = sub =>
                      /\ rec'[th].sent = <<>>
                      /\ rec'[th].frames = <<>>
                      /\ UNCHANGED <<coordVars, storeVars, now, cache_down, connVars, fl, ro, message_buffer, aggVars, wla_active,
                                     subscribed_symbols, asset_cache,
                                     asset_class_cache, last_request, authenticated,
                                     chan>>]_vars

\* a reconcile call found AAPL subscribed and BTC/USD desired: it sent a
\* subscribe for BTC/USD, then an unsubscribe for AAPL, and subscribed_symbols
\* is the desired set
C9_Witness ==
    \E th \in Threads :
        /\ rec[th].pc = "idle"
        /\ rec[th].before = {"AAPL"}
        /\ rec[th].current = {"BTC/USD"}
        /\ rec[th].sent = <<[action |-> "subscribe", symbols |-> {"BTC/USD"}],
                            [action |-> "unsubscribe", symbols |-> {"AAPL"}]>>
        /\ subscribed_symbols = {"BTC/USD"}

\* ------------------------------------------------------------ flush_closed
\* the step of flush_closed that examines the closed entry Head(bl.items)
FlushGateStep == bl.pc = "flush" /\ bl.items # <<>> /\ bl' # bl

\* the step of flush_closed that calls save_candles
FlushSaveStep == bl.pc = "flush_save" /\ bl' # bl

\* C11: flush_closed saves a closed bucket, once and in snapshot mode, exactly
\* when is_historical_complete holds for it at that moment; otherwise the
\* entry leaves the accumulator and nothing is written.
C11_FlushWritesIffComplete ==
    [][/\ FlushGateStep =>
            LET tf == HigherTFs[bl.tfi]
                key == Head(bl.items)
            IN /\ store' = store
               /\ key \notin DOMAIN tf_acc'[tf]
               /\ (bl'.pc = "flush_save") <=> IsHistoricalComplete(key[1], tf, key[2])
               /\ bl'.pc = "flush_save" =>
                     bl'.pending = [k \in {key} |-> tf_acc[tf][key]]
               /\ bl'.pc # "flush_save" => bl'.pc = "flush" /\ bl'.items = Tail(bl.items)
       /\ FlushSaveStep =>
            LET tf == HigherTFs[bl.tfi]
            IN /\ DOMAIN bl.pending = {Head(bl.items)}
               /\ store' = SaveCandles(store, tf, bl.pending, "snapshot")
               /\ OtherRowsKept(tf, DOMAIN bl.pending)
               /\ bl'.pc = "flush" /\ bl'.items = Tail(bl.items)]_vars

\* flush_closed found the gate true for a closed bucket: the entry is out of
\* the accumulator and its row holds the snapshot
C11_Witness ==
    /\ bl.pc = "flush"
    /\ lastw.src = "closed"
    /\ \E k \in DOMAIN lastw.updates :
          /\ <<lastw.tf, k[1], k[2]>> \in evicted
          /\ k \notin DOMAIN tf_acc[lastw.tf]
          /\ k[2] + TF_CFG[lastw.tf] <= bl.latest
          /\ StoredRow(<<lastw.tf, k[1], k[2]>>).volume = lastw.updates[k].volume

\* ------------------------------------------------- is_historical_complete
\* a 1T row of the asset is at least 4 days old
OldMinuteRow(aid) ==
    \E i \in 1..Len(store) :
        /\ store[i].asset_id = aid
        /\ store[i].timeframe = TF_1T
        /\ TsMs(store[i].timestamp) <= now - 4 * 1440 * MinuteMs

\* a row of the timeframe lies before the start of yesterday
OldTimeframeRow(aid, tf) ==
    \E i \in 1..Len(store) :
        /\ store[i].asset_id = aid
        /\ store[i].timeframe = tf
        /\ store[i].timestamp < HistoricalThreshold(now)

\* C12: with a readable cache, is_historical_complete is false whenever the running flag is set, also
\* with the completed flag set; else true when the completed flag is set; with
\* neither flag it is true exactly when a 1T row at least 4 days old and a row
\* of the target timeframe before the historical threshold both exist.
C12_TierOrder ==
    \A aid \in Assets : \A tf \in HigherTFSet :
        LET r == IsHistoricalComplete(aid, tf, 0)
        IN ~cache_down =>
           /\ aid \in running => ~r
           /\ (aid \notin running /\ aid \in completed) => r
           /\ (aid \notin running /\ aid \notin completed) =>
                 (r <=> (OldMinuteRow(aid) /\ OldTimeframeRow(aid, tf)))

\* persist_open evaluated the gate for asset 1 while both the running and the
\* completed flag were set, and found it false
C12_Witness ==
    /\ 1 \in running
    /\ 1 \in completed
    /\ bl.pc = "persist"
    /\ \E k \in DOMAIN bl.gate : k[1] = 1 /\ ~bl.gate[k]

\* ------------------------------------------- the gate with the cache down
NextGate ==
    \/ Next
    \/ CacheFail

\* the batch loop and the job while the service's cache reads can fail
SpecGate == Init /\ [][NextGate]_vars

\* C13: while the flags cannot be read the gate counts as not complete: no
\* persist_open selects a key for writing and no flush_closed saves a closed
\* bucket on a gate evaluated with the cache down.
C13_FailSafeWhenUnreadable ==
    [][cache_down =>
          /\ PersistCheckStep => bl'.pc # "save"
          /\ FlushGateStep => bl'.pc # "flush_save"]_vars

\* ------------------------------------------------ maybe_schedule_for_assets
\* C14: the set maybe_schedule_for_assets returns to _on_assets_added is
\* exactly the set of assets for which that call enqueued a backfill job.
C14_ReturnsActuallyScheduled ==
    [][\A th \in Threads :
          ReconcileStep(th) =>
             rec'[th].scheduled = {a \in Assets : task_queue'[a] > task_queue[a]}]_vars

\* ------------------------------------------------ folding ticks, rollup
\* three AAPL trades of minute 0, every order of three price levels
FoldBatches ==
    {<<Trade("AAPL", 10, p1, s1), Trade("AAPL", 20, p2, 2), Trade("AAPL", 30, p3, 1)>> :
        p1 \in 1..3, p2 \in 1..3, p3 \in 1..3, s1 \in 1..2}

\* instants around the session bounds, in seconds from minute 0 (Monday
\* 2023-10-30 15:45 New York), with whether they lie in regular trading hours:
\* Monday 09:29, 09:30, 15:59, 16:00, Saturday 12:00, Sunday 12:00
HoursTable ==
    (0 - 22560) :> FALSE @@ (0 - 22500) :> TRUE @@ 840 :> TRUE @@ 900 :> FALSE
    @@ 418500 :> FALSE @@ 504900 :> FALSE

\* one trade or one bar of a stock or of a crypto asset at each of the instants
HoursBatches ==
    {<<Trade(sym, t, 2, 1)>> : sym \in {"AAPL", "BTC/USD"}, t \in DOMAIN HoursTable}
    \cup
    {<<Bar(sym, t, 1, 2, 1, 2, 3)>> : sym \in {"AAPL", "BTC/USD"}, t \in DOMAIN HoursTable}

NextFold ==
    \/ OnOpen("stocks")
    \/ OnAuthSuccess("stocks")
    \/ ReconcileLocked("stocks")
    \/ \E msgs \in FoldBatches \cup HoursBatches : BatchBegin(msgs)
    \/ PersistCheck
    \/ PersistSave
    \/ Attach
    \/ FlushBegin
    \/ FlushStep
    \/ FlushSave
    \/ FlushNextTf

\* _process_batch on the message lists of the feeds, after the first reconcile
SpecFold == Init /\ [][NextFold]_vars

\* the merge of a minute candle c into the accumulator entry e of its bucket
MergedInto(e, c) ==
    [x \in DOMAIN e \cup {"open", "high", "low", "close", "volume"} |->
        IF x = "open" THEN (IF Get(e, "open") = None THEN c.open ELSE e.open)
        ELSE IF x = "high" THEN Max(e.high, c.high)
        ELSE IF x = "low" THEN Min(e.low, c.low)
        ELSE IF x = "close" THEN c.close
        ELSE IF x = "volume" THEN e.volume + c.volume
        ELSE e[x]]

\* C15: the trades of one (asset, minute) fold, in arrival order, into
\* open = first price, high = max, low = min, close = last price, volume = sum
\* of sizes; rollup_from_minutes merges that candle into each higher-timeframe
\* entry: open filled only if unset, high/low widened, close replaced, volume
\* summed (a new entry takes the candle's values).
C15_FoldAndRollup ==
    [][\A msgs \in FoldBatches :
          (asset_cache # <<>> /\ BatchBegin(msgs)) =>
             LET k == <<1, 0>>
                 c == bl'.m1.data[k]
             IN /\ DOMAIN bl'.m1.data = {k}
                /\ c = [open |-> msgs[1].p,
                        high |-> Max(msgs[1].p, Max(msgs[2].p, msgs[3].p)),
                        low |-> Min(msgs[1].p, Min(msgs[2].p, msgs[3].p)),
                        close |-> msgs[3].p,
                        volume |-> msgs[1].s + msgs[2].s + msgs[3].s]
                /\ \A tf \in HigherTFSet :
                      LET key == <<1, FloorToBucket(0, TF_CFG[tf])>>
                      IN /\ key \in DOMAIN tf_acc'[tf]
                         /\ tf_acc'[tf][key] =
                               IF key \in DOMAIN tf_acc[tf]
                               THEN MergedInto(tf_acc[tf][key], c)
                               ELSE c
                         /\ \A k2 \in DOMAIN tf_acc[tf] \ {key} :
                               k2 \in DOMAIN tf_acc'[tf] /\
                               tf_acc'[tf][k2] = tf_acc[tf][k2]]_vars

\* a second batch with prices 2, 3, 1 was folded to O=2 H=3 L=1 C=1 V=4 and
\* merged into the 5T entry the first batch left: its open is the first
\* batch's, its close 1, its volume the sum of both batches
C15_Witness ==
    /\ bl.pc = "persist"
    /\ bl.n = 2
    /\ bl.call = 1
    /\ bl.tfi = 1
    /\ bl.m1.data = (<<1, 0>> :> [open |-> 2, high |-> 3, low |-> 1, close |-> 1,
                                  volume |-> 4])
    /\ <<1, 0>> \in DOMAIN tf_acc[TF_5T]
    /\ tf_acc[TF_5T][<<1, 0>>].open = 3
    /\ tf_acc[TF_5T][<<1, 0>>].high = 3
    /\ tf_acc[TF_5T][<<1, 0>>].low = 1
    /\ tf_acc[TF_5T][<<1, 0>>].close = 1
    /\ tf_acc[TF_5T][<<1, 0>>].volume = 9

NextConn ==
    \/ \E ch \in Channels : OnOpen(ch)
    \/ \E ch \in Channels : OnAuthSuccess(ch)
    \/ \E ch \in Channels : OnClose(ch)
    \/ \E ch \in Channels : OnAuthError(ch)
    \/ AuthTimeoutCheck
    \/ \E th \in Threads : ReconcileLocked(th)
    \/ Tick(BackoffMs)

\* both channel runners with disconnects, auth errors, the auth watchdog and
\* the clock in steps of 10 s
SpecConn == Init /\ [][NextConn]_vars

C18_WatchdogPerChannel ==
    \A ch \in Channels :
        (/\ ws_running
         /\ chan[ch] = "open"
         /\ now - auth_sent_at[ch] > AuthTimeoutMs) => AuthTimedOut

\* ------------------------------------------------ batches with bad messages
\* a trade without price or timestamp, a bar without timestamp, or either
\* with a timestamp that cannot be parsed
Malformed(m) == m.t = None \/ ParseRaises(m.t) \/ (m.T = "t" /\ m.p = None)

WellFormed(msgs) == SelectSeq(msgs, LAMBDA m : ~Malformed(m))

\* a good trade behind one bad message: a trade without timestamp, without
\* price, with an unparseable timestamp; a crypto bar without timestamp, with
\* an unparseable one
MalformedBatches ==
    {<<m, Trade("AAPL", 30, 3, 1)>> :
        m \in {Trade("AAPL", None, 2, 1), Trade("AAPL", 20, None, 1),
               Trade("AAPL", BadTs, 2, 1),
               Bar("BTC/USD", None, 1, 2, 1, 2, 3),
               Bar("BTC/USD", BadTs, 1, 2, 1, 2, 3)}}

NextDrain ==
    \/ OnOpen("stocks")
    \/ OnAuthSuccess("stocks")
    \/ ReconcileLocked("stocks")
    \/ \E msgs \in MalformedBatches \cup HoursBatches : BatchBegin(msgs)
    \/ PersistCheck
    \/ PersistSave
    \/ Attach
    \/ FlushBegin
    \/ FlushStep
    \/ FlushSave
    \/ FlushNextTf

\* the batch loop on batches that may hold a bad message
SpecDrain == Init /\ [][NextDrain]_vars

\* C19: a batch holding a malformed message is processed as the same batch
\* without that message: the remaining messages are folded and persisted and
\* the drain loop goes on to later batches.
C19_MalformedSkipped ==
    [][\A msgs \in MalformedBatches :
          BatchBegin(msgs) => BatchBegin(WellFormed(msgs))]_vars

\* ------------------------------------ save_candles with a failing storage
NextStoreFail ==
    \/ NextStore
    \/ \E tf \in {TF_5T}, k \in SaveKeys, d \in SaveData,
          mode \in {"delta", "snapshot"} :
            SaveReadFails(tf, [x \in {k} |-> d], mode)
    \/ SaveWriteFails

\* save_candles calls racing with the backfill job, where the read of the
\* existing rows or the write transaction of a call may fail
SpecStoreFail == InitStore /\ [][NextStoreFail]_vars

\* C20: no save_candles call ends by raising to its caller, whether the
\* storage fails in the read of the existing rows or in the write, and the
\* call leaves the higher-timeframe accumulators as they were.
C20_SaveNeverRaises ==
    /\ sv.pc # "raised"
    /\ tf_acc = [tf \in HigherTFSet |-> <<>>]

ResetBatches ==
    {<<Trade("AAPL", 30, 2, 1), Trade("AAPL", 45, 3, 1)>>,
     <<Trade("AAPL", 300, 3, 1)>>}

NextReset ==
    \/ OnOpen("stocks")
    \/ OnAuthSuccess("stocks")
    \/ ReconcileLoop
    \/ \E th \in {"stocks", "loop"} : ReconcileLocked(th)
    \/ RemoveAsset(1)
    \/ AddAsset(2)
    \/ Tick(CooldownMs)
    \/ \E msgs \in ResetBatches : BatchBegin(msgs)
    \/ PersistCheck
    \/ PersistSave
    \/ Attach
    \/ FlushBegin
    \/ FlushStep
    \/ FlushSave
    \/ FlushNextTf

\* the subscription threads and the batch-drain thread side by side: AAPL
\* leaves the watchlists and comes back through another watchlist
SpecReset == Init /\ [][NextReset]_vars

\* the step in which _on_assets_added runs reset_for_asset for some asset
ResetStep(th) == ReconcileStep(th) /\ rec'[th].scheduled # {}

\* C22: reset_for_asset never runs while the batch loop is between its
\* rollup_from_minutes and the end of its flush_closed.
C22_AccumulatorsOneThread ==
    [][\A th \in Threads : ResetStep(th) => bl.pc \in {"idle", "dead"}]_vars

\* C30: a reconcile call removes from every higher-timeframe accumulator all
\* entries of the assets for which its request_backfill enqueued a backfill,
\* and leaves every other entry as it was.
C30_ResetOnlyScheduled ==
    [][\A th \in Threads :
          ReconcileStep(th) =>
             LET enqueued == {a \in Assets : task_queue'[a] > task_queue[a]}
             IN \A tf \in HigherTFSet :
                   tf_acc'[tf] =
                      Del(tf_acc[tf], {k \in DOMAIN tf_acc[tf] : k[1] \in enqueued})]_vars

\* ------------------------------------------- the caches and their lock
\* one trade of each asset in minute 0, one AAPL trade in minute 5
CacheBatches ==
    {<<Trade("AAPL", 30, 2, 1)>>, <<Trade("BTC/USD", 30, 2, 1)>>,
     <<Trade("AAPL", 300, 3, 1)>>}

NextCache ==
    \/ OnOpen("stocks")
    \/ OnAuthSuccess("stocks")
    \/ ReconcileLoop
    \/ \E th \in {"stocks", "loop"} : CacheUpdateSymbols(th)
    \/ \E th \in {"stocks", "loop"} : CacheUpdateClasses(th)
    \/ \E th \in {"stocks", "loop"} : ReconcileAdded(th)
    \/ \E th \in {"stocks", "loop"} : NewAssets(th) = {} /\ ReconcileLocked(th)
    \/ RemoveAsset(3)
    \/ AddAsset(3)
    \/ SnapshotSymbols
    \/ SnapshotClasses
    \/ \E msgs \in CacheBatches : BatchFromSnapshot(msgs)
    \/ PersistCheck
    \/ PersistSave
    \/ Attach
    \/ FlushBegin
    \/ FlushStep
    \/ FlushSave
    \/ FlushNextTf

\* update_asset_cache and the batch's two copies, each a pair of steps under
\* _asset_lock, interleaved
SpecCache == Init /\ [][NextCache]_vars

\* C23: the two maps a batch works with are a consistent pair: every asset id
\* in its symbol map has a class in its class map; the pair does not change
\* while the batch waits, and the batch folds only symbols of its own symbol
\* map, whatever the caches hold by then.
C23_ConsistentSnapshot ==
    [][/\ bl'.pc = "snapped" =>
             /\ \A sym \in DOMAIN bl'.s2i : bl'.s2i[sym] \in DOMAIN bl'.i2c
             /\ bl.pc = "snapped" => bl'.s2i = bl.s2i /\ bl'.i2c = bl.i2c
       /\ (bl.pc = "snapped" /\ bl'.pc = "persist") =>
             \A k \in DOMAIN bl'.m1.data :
                \E sym \in DOMAIN bl.s2i : bl.s2i[sym] = k[1]]_vars

\* a batch holds its snapshot with AAPL alone while the caches have since
\* received BTC/USD
C23_Witness ==
    /\ bl.pc = "snapped"
    /\ DOMAIN bl.s2i = {"AAPL"}
    /\ DOMAIN bl.i2c = {1}
    /\ DOMAIN asset_cache = {"AAPL", "BTC/USD"}
    /\ DOMAIN asset_class_cache = {1, 2}

\* ------------------------------------------------------ floor_to_bucket
\* the sub-day durations of TF_CFG above one minute: 5T, 15T, 30T, 1H, 4H
SubDayMinutes == {5, 15, 30, 60, 240}

\* minutes around minute 0, four hours either way, and 14:32 UTC of that day
FloorInputs == {t \in (0 - 240)..240 : t % 7 = 0} \cup {0 - 313}

InitFloor ==
    /\ CoordInit
    /\ StoreInit
    /\ now = StartMs
    /\ cache_down = FALSE
    /\ auth_start_time = None
    /\ ws_running = TRUE
    /\ retry_at = [ch \in Channels |-> 0]
    /\ auth_sent_at = [ch \in Channels |-> None]
    /\ fl \in {[ts |-> t, minutes |-> d, bucket |-> None] :
                  t \in FloorInputs, d \in SubDayMinutes}
    /\ ro = NoRollup
    /\ message_buffer = EmptyBuffer
    /\ tf_acc = [tf \in HigherTFSet |-> <<>>]
    /\ last_open_flush = [tf \in HigherTFSet |-> 0]
    /\ bl = IdleBatch
    /\ lastw = NoWrite
    /\ evicted = {}
    /\ skipped = {}
    /\ wla_active = {1, 3}
    /\ subscribed_symbols = {}
    /\ asset_cache = <<>>
    /\ asset_class_cache = <<>>
    /\ last_request = [a \in Assets |-> 0]
    /\ authenticated = FALSE
    /\ chan = [ch \in Channels |-> "closed"]
    /\ rec = [th \in Threads |-> IdleRec]

\* floor_to_bucket(ts, delta) returns
Floor ==
    /\ fl.bucket = None
    /\ fl' = [fl EXCEPT !.bucket = FloorToBucket(fl.ts, fl.minutes)]
    /\ UNCHANGED <<coordVars, storeVars, now, cache_down, connVars, ro, message_buffer,
                   aggVars, subVars>>

\* floor_to_bucket on minutes around minute 0 for every sub-day duration
SpecFloor == InitFloor /\ [][Floor]_vars

\* C24: for every sub-day timeframe floor_to_bucket returns the start of the
\* bucket of ts on the grid anchored at 09:30, the grid date_bin of the
\* backfill resampler uses.
C24_FloorOnOpenAnchoredGrid ==
    fl.bucket # None => fl.bucket = DateBin(fl.ts, fl.minutes)

\* ------------------------------------------------------------- shutdown
NextStop ==
    \/ \E ch \in Channels : RunnerCheck(ch)
    \/ \E ch \in Channels : RunForever(ch)
    \/ \E ch \in Channels : OnAuthSuccess(ch)
    \/ \E ch \in Channels : OnClose(ch)
    \/ \E ch \in Channels : OnAuthError(ch)
    \/ AuthTimeoutCheck
    \/ \E th \in Channels : ReconcileLocked(th)
    \/ Tick(BackoffMs)

\* the channel runners, each with its check of running and its run_forever
\* as two steps, beside stop()
SpecStop == Init /\ [][NextStop]_vars

\* C25: once stop() has run, running is false and no transport channel is
\* connected; stop() itself writes nothing to the store and leaves the
\* accumulators alone.
C25_StoppedMeansClosed ==
    [][~ws_running' =>
          /\ \A ch \in Channels : chan'[ch] \notin {"open", "authed"}
          /\ ws_running => store' = store /\ tf_acc' = tf_acc]_vars

\* ------------------------------------------------- volume of a 1T row
\* the crypto feed delivers the trades of a minute and the bar of that minute,
\* whose volume is the minute's total: here a trade of size 1 and the bar of
\* volume 3; besides, the stock batches
VolumeBatches == {b \in Batches : b[1].T = "b"} \cup ResetBatches

NextVolume ==
    \/ OnOpen("stocks")
    \/ OnAuthSuccess("stocks")
    \/ ReconcileLocked("stocks")
    \/ \E msgs \in VolumeBatches : BatchBegin(msgs)
    \/ PersistCheck
    \/ PersistSave
    \/ Attach
    \/ FlushBegin
    \/ FlushStep
    \/ FlushSave
    \/ FlushNextTf

\* the batch loop on the crypto feed's trades and bars
SpecVolume == Init /\ [][NextVolume]_vars

\* C26: the stored 1T volume of a minute counts no traded unit twice: when a
\* batch brings the bar of a minute that has no row yet, together with trades
\* of that minute, the row's volume does not exceed the bar's volume.
C26_NoDoubleCount ==
    [][\A msgs \in {b \in VolumeBatches : b[1].T = "b"} :
          LET bar == msgs[1]
              aid == asset_cache[bar.S]
              ts == ParseTickTimestamp(bar.t)
          IN (/\ bar.S \in DOMAIN asset_cache
              /\ RowIds(store, TF_1T, aid, ts) = {}
              /\ BatchBegin(msgs)) =>
                 \A i \in 1..Len(store') :
                    (/\ store'[i].timeframe = TF_1T
                     /\ store'[i].asset_id = aid
                     /\ store'[i].timestamp = ts) => store'[i].volume <= bar.v]_vars

\* C27: what persist_open hands to save_candles for a timeframe are keys of
\* that call's touched set whose bucket end (start + duration) is strictly
\* after latestMinuteTs, and the save changes rows of those keys only: a
\* touched key whose bucket end is at or before latestMinuteTs is not written,
\* whatever the gate says.
C27_OnlyOpenTouchedKeys ==
    [][PersistSaveStep =>
          LET tf == bl.tfs[bl.tfi]
          IN /\ \A k \in DOMAIN bl.pending :
                   /\ k \in Touched(tf, bl.m1)
                   /\ k[2] + TF_CFG[tf] > bl.latest
             /\ \A i \in 1..Len(store') :
                   (/\ store'[i].timeframe = tf
                    /\ <<store'[i].asset_id, store'[i].timestamp>> \in Touched(tf, bl.m1)
                    /\ store'[i].timestamp + TF_CFG[tf] <= bl.latest) =>
                       i <= Len(store) /\ store[i] = store'[i]]_vars

\* persist_open has just written the open 5T bucket of minute 5 from a batch
\* that also touched the 5T bucket of minute 0, which ends at latestMinuteTs
\* and passes the gate: it was left out of the write
C27_Witness ==
    /\ bl.pc = "persist"
    /\ bl.latest = 5
    /\ lastw.src = "open"
    /\ lastw.tf = TF_5T
    /\ <<1, 5>> \in DOMAIN lastw.updates
    /\ <<1, 0>> \in Touched(TF_5T, bl.m1)
    /\ <<1, 0>> \notin DOMAIN lastw.updates
    /\ IsHistoricalComplete(1, TF_5T, 0)

\* C28: two store writes of persist_open for one higher timeframe are at least
\* open_flush_secs apart: when persist_open calls save_candles for a timeframe
\* it wrote before, at least OpenFlushMs of wall-clock time have passed since
\* that write.
C28_WritesSeparated ==
    [][PersistSaveStep =>
          LET tf == bl.tfs[bl.tfi]
          IN lastw.open_at[tf] # None => now - lastw.open_at[tf] >= OpenFlushMs]_vars

\* ------------------------------------------------- the backfill cooldown
NextCooldown ==
    \/ OnOpen("stocks")
    \/ OnAuthSuccess("stocks")
    \/ ReconcileLoop
    \/ \E th \in {"loop", "stocks"} : ReconcileLocked(th)
    \/ RemoveAsset(3)
    \/ AddAsset(3)
    \/ Tick(OpenFlushMs)
    \/ Tick(CooldownMs)

\* reconcile calls against a watchlist row that is removed and added again,
\* within the cooldown window and after it
SpecCooldown == Init /\ [][NextCooldown]_vars

\* C29: request_backfill is called for an asset at most once per cooldown
\* window and again after it: a reconcile call stamps _last_request of an asset
\* (which it does exactly when _maybe_schedule calls request_backfill) only
\* when at least CooldownMs have passed since the asset's previous stamp, the
\* stamp is the time of the call, and a newly added asset with an active
\* watchlist row whose 1T data is missing or stale is stamped whenever the
\* cooldown has elapsed.
C29_CooldownPerAsset ==
    [][\A th \in Threads :
          ReconcileStep(th) =>
             LET new == ReconcileNew(rec[th].current, subscribed_symbols)
                 added == {r.id : r \in {r \in AssetTable : r.symbol \in new}}
             IN \A a \in DOMAIN last_request :
                   LET latest == LatestTs(store, TF_1T, a)
                       due == /\ a \in added
                              /\ latest = None \/ now - TsMs(latest) > GapThresholdMs
                              /\ \E r \in WatchListAssetRows :
                                     r.id \in wla_active /\ r.asset_id = a
                   IN /\ last_request'[a] # last_request[a] =>
                            /\ now - last_request[a] >= CooldownMs
                            /\ last_request'[a] = now
                            /\ due
                      /\ (due /\ now - last_request[a] >= CooldownMs) =>
                            last_request'[a] = now]_vars

\* an asset whose backfill was requested before was removed from the
\* watchlist, added again after the cooldown, and requested a second time
C29_Witness ==
    \E th \in Threads :
       /\ rec[th].pc = "idle"
       /\ 2 \in rec[th].again
       /\ 2 \in rec[th].scheduled
       /\ last_request[2] >= StartMs + CooldownMs

\* ------------------------------------------------- the gate's storage queries
\* is_historical_complete gets as far as its Candle queries: neither cache
\* tier returned
HeuristicReached(aid) ==
    /\ ~(~cache_down /\ aid \in running)
    /\ ~(~cache_down /\ aid \in completed)

\* persist_open when a Candle query of is_historical_complete fails for an open
\* touched key: the queries are outside every try, persist_open, _process_batch
\* and _batch_processor_loop catch nothing, the drain thread ends
PersistGateFails ==
    /\ bl.pc = "persist"
    /\ bl.tfi <= Len(bl.tfs)
    /\ LET tf == bl.tfs[bl.tfi]
       IN /\ ~Throttled(bl.pnow, last_open_flush[tf])
          /\ \E k \in OpenKeys(tf, Touched(tf, bl.m1), bl.latest) :
                HeuristicReached(k[1])
    /\ bl' = [IdleBatch EXCEPT !.pc = "dead", !.n = bl.n]
    /\ UNCHANGED <<coordVars, storeVars, now, cache_down, connVars, fl, ro, message_buffer, tf_acc,
                   last_open_flush, lastw, evicted, skipped, subVars>>

\* flush_closed when a Candle query of is_historical_complete fails for a closed
\* entry: the entry is not popped, the drain thread ends
FlushGateFails ==
    /\ bl.pc = "flush"
    /\ bl.items # <<>>
    /\ HeuristicReached(Head(bl.items)[1])
    /\ bl' = [IdleBatch EXCEPT !.pc = "dead", !.n = bl.n]
    /\ UNCHANGED <<coordVars, storeVars, now, cache_down, connVars, fl, ro, message_buffer, tf_acc,
                   last_open_flush, lastw, evicted, skipped, subVars>>

NextGateFail ==
    \/ Next
    \/ PersistGateFails
    \/ FlushGateFails

\* the batch loop and the job while the gate's storage queries can fail
SpecGateFail == Init /\ [][NextGateFail]_vars

\* C31: a storage query failing in the heuristic tier of is_historical_complete
\* makes the call return false without raising: persist_open and flush_closed
\* go on as for a key that is not complete, nothing is saved for it and the
\* batch loop keeps running.
C31_HeuristicFailureIsFalse ==
    [][/\ PersistGateFails => bl'.pc = "persist"
       /\ FlushGateFails => bl'.pc = "flush"]_vars

\* C32: an error message naming authentication, on either channel, stops the
\* client: the step leaves running false and no channel connected, and from
\* then on no channel connects and no auth frame is sent.
C32_AuthErrorStopsForGood ==
    [][/\ \A ch \in Channels :
             OnAuthError(ch) =>
                /\ ~ws_running'
                /\ \A c \in Channels : chan'[c] \notin {"open", "authed"}
       /\ ~ws_running =>
             /\ \A c \in Channels : chan'[c] = "open" => chan[c] = "open"
             /\ \A c \in Channels :
                   auth_sent_at'[c] # None => auth_sent_at'[c] = auth_sent_at[c]]_vars

\* ------------------------------------------------- the queued flag at pickup
NextPickup ==
    \/ \E c \in Callers : RbAdd(c, 1)
    \/ \E c \in Callers : RbDelay(c)
    \/ \E c \in Callers : RbReturn(c)
    \/ ExpireQueued(1)
    \/ \E w \in Workers : JobStart(w, 1)
    \/ \E w \in Workers : JobStep1(w)
    \/ \E w \in Workers : JobStep2(w)
    \/ \E w \in Workers : JobMark(w)
    \/ \E w \in Workers : JobFinally(w)

\* request_backfill callers for one asset, the queued flag's TTL and two
\* celery workers
SpecPickup == InitCoord /\ [][NextPickup]_vars

\* C33: a fetch_historical_data job that picked up an asset leaves the asset's
\* queued flag cleared when it exits, on the path through finally and on the
\* paths that return before the try (asset not found, running flag held by
\* another job).
C33_PickupClearsQueued ==
    [][/\ \A w \in Workers, a \in Assets :
             (JobStart(w, a) /\ job'[w].pc = "idle") => a \notin queued'
       /\ \A w \in Workers :
             JobFinally(w) => job[w].asset \notin queued']_vars

\* ------------------------------------------------- rollup, order and split
\* the OHLCV of a 1-minute entry
RollupData ==
    {[open |-> 1, high |-> 2, low |-> 1, close |-> 2, volume |-> 1],
     [open |-> 2, high |-> 3, low |-> 2, close |-> 3, volume |-> 2],
     [open |-> 3, high |-> 3, low |-> 1, close |-> 1, volume |-> 1]}

\* 1-minute entries of asset 1 in minutes 0..2, all inside the 5T bucket and
\* the 15T bucket of minute 0
RollupEntries == {[minute |-> m, data |-> d] : m \in 0..2, d \in RollupData}

RollupPerms == {p \in [1..3 -> 1..3] : \A i, j \in 1..3 : p[i] = p[j] => i = j}

\* a run: the calls of rollup_from_minutes in order, each call the indexes of
\* the entries of its m1_map in insertion order; every order of three entries
\* and every split of it into calls
RollupRuns ==
    UNION {{<<<<p[1], p[2], p[3]>>>>,
            <<<<p[1]>>, <<p[2], p[3]>>>>,
            <<<<p[1], p[2]>>, <<p[3]>>>>,
            <<<<p[1]>>, <<p[2]>>, <<p[3]>>>>} : p \in RollupPerms}

\* the entries one after the other, one call each
RollupRefRun == <<<<1>>, <<2>>, <<3>>>>

\* m1_map is a dict: the entries of one call have different minutes
RollupRunValid(es, run) ==
    \A c \in 1..Len(run) :
       \A i, j \in 1..Len(run[c]) :
          es[run[c][i]].minute = es[run[c][j]].minute => i = j

RECURSIVE RollupM1(_, _, _, _)
\* the m1_map of one call
RollupM1(es, call, i, d) ==
    IF i > Len(call) THEN d
    ELSE RollupM1(es, call, i + 1,
                  DictPut(d, <<1, es[call[i]].minute>>, es[call[i]].data))

RECURSIVE RollupRun(_, _, _, _)
\* the accumulators after the calls of a run
RollupRun(accs, es, run, c) ==
    IF c > Len(run) THEN accs
    ELSE RollupRun(RollupFromMinutes(accs, RollupM1(es, run[c], 1, EmptyDict)),
                   es, run, c + 1)

InitRollup ==
    /\ CoordInit
    /\ StoreInit
    /\ now = StartMs
    /\ cache_down = FALSE
    /\ auth_start_time = None
    /\ ws_running = TRUE
    /\ retry_at = [ch \in Channels |-> 0]
    /\ auth_sent_at = [ch \in Channels |-> None]
    /\ fl = NoFloor
    /\ message_buffer = EmptyBuffer
    /\ ro \in {x \in {[entries |-> es, run |-> r, ref |-> <<>>, done |-> FALSE] :
                          es \in [1..3 -> RollupEntries], r \in RollupRuns} :
                   RollupRunValid(x.entries, x.run)}
    /\ tf_acc = [tf \in HigherTFSet |-> <<>>]
    /\ last_open_flush = [tf \in HigherTFSet |-> 0]
    /\ bl = IdleBatch
    /\ lastw = NoWrite
    /\ evicted = {}
    /\ skipped = {}
    /\ wla_active = {1, 3}
    /\ subscribed_symbols = {}
    /\ asset_cache = <<>>
    /\ asset_class_cache = <<>>
    /\ last_request = [a \in Assets |-> 0]
    /\ authenticated = FALSE
    /\ chan = [ch \in Channels |-> "closed"]
    /\ rec = [th \in Threads |-> IdleRec]

\* the calls of the run on _tf_acc; ro.ref is what the same entries give when
\* they come one call each in the order of ro.entries
Rollup ==
    /\ ~ro.done
    /\ tf_acc' = RollupRun(tf_acc, ro.entries, ro.run, 1)
    /\ ro' = [ro EXCEPT !.ref = RollupRun(tf_acc, ro.entries, RollupRefRun, 1),
                        !.done = TRUE]
    /\ UNCHANGED <<coordVars, storeVars, now, cache_down, connVars, fl, message_buffer,
                   last_open_flush, bl, lastw, evicted, skipped, subVars>>

\* rollup_from_minutes on three entries of one bucket, in every order and split
SpecRollup == InitRollup /\ [][Rollup]_vars

\* the accumulators of the run and of the reference agree on the fields fs
RollupAgree(fs) ==
    \A tf \in HigherTFSet :
       /\ DOMAIN tf_acc[tf] = DOMAIN ro.ref[tf]
       /\ \A k \in DOMAIN tf_acc[tf] :
             \A f \in fs : tf_acc[tf][k][f] = ro.ref[tf][k][f]

\* C34 as stated: for the same entries of one bucket the accumulator is the
\* same for every arrival order and every split across calls, except for
\* close, the only field that depends on the arrival order.
C34_AsStated == ro.done => RollupAgree({"open", "high", "low", "volume"})

\* C34, amended: for the same entries of one bucket the accumulator's high,
\* low and volume are the same for every arrival order and every split across
\* calls; open is the open of the entry that arrived first and close the
\* close of the entry that arrived last, so both depend on the arrival order.
C34_HighLowVolumeOrderFree ==
    ro.done =>
       /\ RollupAgree({"high", "low", "volume"})
       /\ \A tf \in HigherTFSet :
             \A k \in DOMAIN tf_acc[tf] :
                LET first == ro.run[1][1]
                    lastc == ro.run[Len(ro.run)]
                IN /\ tf_acc[tf][k].open = ro.entries[first].data.open
                   /\ tf_acc[tf][k].close = ro.entries[lastc[Len(lastc)]].data.close

\* three entries arrived in another order and in two calls: high, low and
\* volume are those of the reference, close is not
C34_Witness ==
    /\ ro.done
    /\ Len(ro.run) = 2
    /\ ro.run # RollupRefRun
    /\ tf_acc[TF_5T][<<1, 0>>].high = ro.ref[TF_5T][<<1, 0>>].high
    /\ tf_acc[TF_5T][<<1, 0>>].low = ro.ref[TF_5T][<<1, 0>>].low
    /\ tf_acc[TF_5T][<<1, 0>>].volume = ro.ref[TF_5T][<<1, 0>>].volume
    /\ tf_acc[TF_5T][<<1, 0>>].volume = 4
    /\ tf_acc[TF_5T][<<1, 0>>].close # ro.ref[TF_5T][<<1, 0>>].close

\* ------------------------------------------------- the running flag
NextLock ==
    \/ NextPickup
    \/ ExpireRunning(1)

\* two celery workers on one asset, with the TTLs of the queued flag and of
\* the running flag (LOCK_TTL, never refreshed by the job)
SpecLock == InitCoord /\ [][NextLock]_vars

\* C35: at no time do two fetch_historical_data jobs execute their body for
\* the same asset, and the running flag of an asset is set as long as a job
\* executes its body for it.
C35_OneJobPerAsset ==
    /\ \A w1, w2 \in Workers :
          (/\ job[w1].pc # "idle"
           /\ job[w2].pc # "idle"
           /\ job[w1].asset = job[w2].asset) => w1 = w2
    /\ \A w \in Workers : job[w].pc # "idle" => job[w].asset \in running

\* ------------------------------------------------- subscriptions on the wire
\* the symbols of the subscribe frames a reconcile call transmitted
SubscribeSent(frames) ==
    UNION {frames[i].symbols : i \in {i \in 1..Len(frames) :
                                        frames[i].action = "subscribe"}}

\* C36: a reconcile call records a symbol as subscribed only when it has
\* transmitted a subscribe frame holding it: a symbol whose send was skipped
\* (socket of its channel not ready, asset unresolved) is not in
\* subscribed_symbols when the call returns.
C36_RecordedMeansSent ==
    [][\A th \in Threads :
          ReconcileStep(th) =>
             (subscribed_symbols' \ subscribed_symbols)
                \subseteq SubscribeSent(rec'[th].frames)]_vars

\* C37: every subscribe or unsubscribe frame a reconcile call transmits goes
\* to a channel that is connected and has completed authentication on its
\* current connection; the other channel's authentication does not enable it.
C37_FramesOnlyWhenChannelAuthed ==
    [][\A th \in Threads :
          ReconcileStep(th) =>
             \A i \in 1..Len(rec'[th].frames) :
                chan[rec'[th].frames[i].ch] = "authed"]_vars

\* C38: a reconcile call sends no unsubscribe for a symbol that the active
\* watchlists hold at the moment the call has the subscription lock.
C38_NoUnsubscribeOfDesired ==
    [][\A th \in Threads :
          ReconcileStep(th) =>
             \A i \in 1..Len(rec'[th].sent) :
                rec'[th].sent[i].action = "unsubscribe" =>
                   rec'[th].sent[i].symbols \cap WatchlistSymbols(wla_active) = {}]_vars

\* ------------------------------------------------- the message buffer
MaxPut == 3

\* MAX_MSGS of _batch_processor_loop, scaled down from 2000
MaxMsgs == 2

\* the data messages a channel delivers: on stocks a trade of minute 0, one of
\* minute 5 and a trade whose timestamp cannot be parsed, on crypto a bar
ChannelTicks(ch) ==
    IF ch = "stocks"
    THEN {Trade("AAPL", 30, 2, 1), Trade("AAPL", 300, 3, 1),
          Trade("AAPL", BadTs, 2, 1)}
    ELSE {Bar("BTC/USD", 0, 1, 2, 1, 2, 3)}

\* on_message_stocks / on_message_crypto on a trade or bar: message_buffer.put(msg)
OnTick(ch, msg) ==
    /\ chan[ch] = "authed"
    /\ Len(message_buffer.put) < MaxPut
    /\ message_buffer' = [message_buffer EXCEPT !.q = Append(@, msg),
                                                !.put = Append(@, msg)]
    /\ UNCHANGED <<coordVars, storeVars, now, cache_down, connVars, fl, ro,
                   aggVars, subVars>>

\* _batch_processor_loop: the buffer is not empty; it takes messages from the
\* head until the buffer is empty, MAX_MSGS are taken or the time budget is
\* used up (n of them), and calls _process_batch on them
Drain(n) ==
    /\ ws_running
    /\ bl.pc = "idle"
    /\ bl.n < MaxBatches
    /\ n \in 1..Min(Len(message_buffer.q), MaxMsgs)
    /\ message_buffer' = [message_buffer EXCEPT
                             !.q = SubSeq(@, n + 1, Len(@)),
                             !.batch = SubSeq(message_buffer.q, 1, n),
                             !.handed = @ \o SubSeq(message_buffer.q, 1, n)]
    /\ bl' = [bl EXCEPT !.pc = "drained"]
    /\ UNCHANGED <<coordVars, storeVars, now, cache_down, connVars, fl, ro, tf_acc,
                   last_open_flush, lastw, evicted, skipped, subVars>>

\* _process_batch(messages) on the drained messages
BatchDrained ==
    /\ bl.pc = "drained"
    /\ BatchBody(message_buffer.batch, asset_cache, asset_class_cache)

\* one step of the thread that runs _batch_processor_loop
DrainThread ==
    \/ \E n \in 1..MaxMsgs : Drain(n)
    \/ BatchDrained
    \/ PersistCheck
    \/ PersistSave
    \/ Attach
    \/ FlushBegin
    \/ FlushStep
    \/ FlushSave
    \/ FlushNextTf

NextBuffer ==
    \/ \E ch \in Channels : OnOpen(ch)
    \/ \E ch \in Channels : OnAuthSuccess(ch)
    \/ \E ch \in Channels : ReconcileLocked(ch)
    \/ \E ch \in Channels : \E msg \in ChannelTicks(ch) : OnTick(ch, msg)
    \/ DrainThread

\* both channels putting messages on the buffer and the drain thread, which
\* takes a step whenever it can
SpecBuffer == Init /\ [][NextBuffer]_vars /\ WF_vars(DrainThread)

\* C39: while the client is running, every message put on the buffer is
\* eventually handed to _process_batch and the drain loop never stops: there
\* is no state in which the client is running, the thread of
\* _batch_processor_loop has ended and a message is left on the buffer.
C39_EveryMessageHanded ==
    ~(ws_running /\ bl.pc = "dead" /\ message_buffer.q # <<>>)

\* ------------------------------------- higher-timeframe volume and the 1T rows
\* the stored 1-minute rows of an asset inside the bucket of tf that starts at
\* bucket
MinuteRowsIn(st, tf, aid, bucket) ==
    {i \in RowsOf(st, TF_1T, aid) :
        st[i].timestamp >= bucket /\ st[i].timestamp < bucket + TF_CFG[tf]}

\* C40: whenever persist_open or flush_closed writes a higher-timeframe row,
\* the volume it writes is the sum of the volumes of the stored 1-minute rows
\* of that asset inside that bucket at the time of the write.
C40_VolumeIsSumOfMinutes ==
    [][(PersistSaveStep \/ FlushSaveStep) =>
          LET tf == IF bl.pc = "save" THEN bl.tfs[bl.tfi] ELSE HigherTFs[bl.tfi]
          IN \A k \in DOMAIN bl.pending :
                /\ "volume" \in DOMAIN bl.pending[k]
                /\ bl.pending[k].volume =
                      SumVolume(store, MinuteRowsIn(store, tf, k[1], k[2]))]_vars

====
